---- MODULE Spec2Model ----
(***************************************************************************)
(* Fixed-asset valuation engine of shuku-assets (services/assetService):   *)
(* point-in-time IFRS and SARS snapshots of a component, the movement      *)
(* schedule of one reporting period, and its aggregation per asset.        *)
(*                                                                         *)
(* Dates are whole days, numbered from 1970-01-01 (every date the engine   *)
(* compares has gone through startOfDay or differs from a start of day by  *)
(* a fixed time of day, so comparisons are comparisons of days).           *)
(*                                                                         *)
(* Money is exact: an amount is an integer number of MoneyUnit-ths of one  *)
(* rand, so that dividing a whole-rand amount by 365.25 days, by a useful  *)
(* life and by 100 per cent leaves no remainder for the inputs used here   *)
(* (ExactInputs states the condition).  Rounding of IEEE doubles is not    *)
(* part of the model.                                                      *)
(***************************************************************************)
EXTENDS Integers, Sequences, FiniteSets, TLC

VARIABLES asset, categories, call

vars == <<asset, categories, call>>

----------------------------------------------------------------------------
(* Calendar *)

\* 365.25 days per year, times four
DAYS_PER_YEAR_X4 == 1461

FISCAL_YEAR_END_MONTH == 5

\* absent disposalDate (undefined / empty string is falsy)
NoDate == 0

\* new Date("YYYY-MM-DD") followed by startOfDay: the day number of a civil date
DayOf(y, m, d) ==
    LET yy  == IF m <= 2 THEN y - 1 ELSE y
        era == yy \div 400
        yoe == yy - era * 400
        mp  == IF m > 2 THEN m - 3 ELSE m + 9
        doy == (153 * mp + 2) \div 5 + d - 1
        doe == yoe * 365 + yoe \div 4 - yoe \div 100 + doy
    IN  era * 146097 + doe - 719468

\* the civil year and the zero-based month of a day number
CivilOf(date) ==
    LET z   == date + 719468
        era == z \div 146097
        doe == z - era * 146097
        yoe == (doe - doe \div 1460 + doe \div 36524 - doe \div 146096) \div 365
        doy == doe - (365 * yoe + yoe \div 4 - yoe \div 100)
        mp  == (5 * doy + 2) \div 153
        m   == IF mp < 10 THEN mp + 3 ELSE mp - 9
    IN  [year  |-> yoe + era * 400 + (IF m <= 2 THEN 1 ELSE 0),
         month |-> m - 1,
         day   |-> doy - (153 * mp + 2) \div 5 + 1]

getFullYear(date) == CivilOf(date).year

getMonth(date) == CivilOf(date).month

subDays(date, amount) == date - amount

differenceInDays(later, earlier) == later - earlier

isBefore(a, b) == a < b

isAfter(a, b) == a > b

\* a fiscal year that would end with May instead of June
getFiscalYearEndingMay(date) ==
    IF getMonth(date) < FISCAL_YEAR_END_MONTH
    THEN getFullYear(date)
    ELSE getFullYear(date) + 1

getFiscalYear(date) ==
    IF getMonth(date) <= FISCAL_YEAR_END_MONTH
    THEN getFullYear(date)
    ELSE getFullYear(date) + 1

----------------------------------------------------------------------------
(* Arithmetic *)

MoneyUnit == 25 * DAYS_PER_YEAR_X4

Rand(u) == u * MoneyUnit

Max(a, b) == IF a >= b THEN a ELSE b

Min(a, b) == IF a <= b THEN a ELSE b

\* x / 365.25
PerDay(x) == (x \div DAYS_PER_YEAR_X4) * 4

\* x * (p / 100)
Percent(x, p) == (x \div 100) * p

----------------------------------------------------------------------------
(* Tax schedules *)

STANDARD_FLAT == "STANDARD_FLAT"

SARS_12C_40_20 == "SARS_12C_40_20"

SARS_12B_50_30_20 == "SARS_12B_50_30_20"

SARS_FULL_100 == "SARS_FULL_100"

SARS_13_5 == "SARS_13_5"

\* schedules that would keep deducting one tax year longer
getTaxYearDeductionOneYearLonger(comp, strategy, taxYear) ==
    IF taxYear < 1 THEN 0
    ELSE CASE strategy = SARS_12C_40_20 ->
                IF taxYear = 1 THEN Percent(comp.cost, 40)
                ELSE IF taxYear >= 2 /\ taxYear <= 5 THEN Percent(comp.cost, 20)
                ELSE 0
           [] strategy = SARS_12B_50_30_20 ->
                IF taxYear = 1 THEN Percent(comp.cost, 50)
                ELSE IF taxYear = 2 THEN Percent(comp.cost, 30)
                ELSE IF taxYear <= 4 THEN Percent(comp.cost, 20)
                ELSE 0
           [] strategy = SARS_FULL_100 ->
                IF taxYear <= 2 THEN comp.cost ELSE 0
           [] strategy = SARS_13_5 ->
                IF taxYear <= 21 THEN Percent(comp.cost, 5) ELSE 0
           [] OTHER -> 0

getTaxYearDeduction(comp, strategy, taxYear) ==
    IF taxYear < 1 THEN 0
    ELSE CASE strategy = SARS_12C_40_20 ->
                IF taxYear = 1 THEN Percent(comp.cost, 40)
                ELSE IF taxYear >= 2 /\ taxYear <= 4 THEN Percent(comp.cost, 20)
                ELSE 0
           [] strategy = SARS_12B_50_30_20 ->
                IF taxYear = 1 THEN Percent(comp.cost, 50)
                ELSE IF taxYear = 2 THEN Percent(comp.cost, 30)
                ELSE IF taxYear = 3 THEN Percent(comp.cost, 20)
                ELSE 0
           [] strategy = SARS_FULL_100 ->
                IF taxYear = 1 THEN comp.cost ELSE 0
           [] strategy = SARS_13_5 ->
                IF taxYear <= 20 THEN Percent(comp.cost, 5) ELSE 0
           [] OTHER -> 0

----------------------------------------------------------------------------
(* Component valuation *)

ACTIVE == "Active"

DISPOSED == "Disposed"

SCRAPPED == "Scrapped"

IMPAIRED == "Impaired"

acqDateOf(comp) == comp.acquisitionDate

\* a disposal date that would be read whatever the status
dispDateOfAnyStatus(comp) == comp.disposalDate

\* null is NoDate
dispDateOf(comp) ==
    IF (comp.status = DISPOSED \/ comp.status = SCRAPPED) /\ comp.disposalDate # NoDate
    THEN comp.disposalDate
    ELSE NoDate

\* comp.field || 0 : a field the record lacks counts as 0
orZero(comp, field) == IF field \in DOMAIN comp THEN comp[field] ELSE 0

\* comp.field || [] : a list the record lacks counts as empty
orEmpty(comp, field) == IF field \in DOMAIN comp THEN comp[field] ELSE <<>>

\* Array.prototype.sort with the comparator a.date - b.date: stable, ascending
RECURSIVE InsertByDate(_, _)
InsertByDate(sorted, r) ==
    IF sorted = <<>> THEN <<r>>
    ELSE IF sorted[Len(sorted)].date <= r.date THEN Append(sorted, r)
    ELSE Append(InsertByDate(SubSeq(sorted, 1, Len(sorted) - 1), r), sorted[Len(sorted)])

RECURSIVE SortByDate(_)
SortByDate(revals) ==
    IF revals = <<>> THEN <<>>
    ELSE InsertByDate(SortByDate(SubSeq(revals, 1, Len(revals) - 1)), revals[Len(revals)])

relevantRevalsAt(comp, normalizedTarget) ==
    SortByDate(SelectSeq(orEmpty(comp, "revaluations"),
                         LAMBDA r : ~isAfter(r.date, normalizedTarget)))

\* a reducer that accumulates
RevalReducerAccumulating(comp, acc, curr) == acc + (curr.newFairValue - comp.cost)

\* the reducer (acc, curr) => curr.newFairValue - comp.cost
RevalReducer(comp, acc, curr) == curr.newFairValue - comp.cost

RECURSIVE ReduceRevals(_, _, _)
ReduceRevals(comp, revals, acc) ==
    IF revals = <<>> THEN acc
    ELSE ReduceRevals(comp, Tail(revals), RevalReducer(comp, acc, Head(revals)))

totalRevalImpactAt(comp, normalizedTarget) ==
    ReduceRevals(comp, relevantRevalsAt(comp, normalizedTarget), 0)

ZeroIFRS == [cost |-> 0, accumDepr |-> 0, impairments |-> 0, revaluations |-> 0, residual |-> 0]

depreciableAmountOf(grossCarryingAmount, residual) ==
    Max(0, grossCarryingAmount - residual)

\* straight-line depreciation that would run on past the depreciable amount
accumDeprUncapped(depreciableAmount, dailyDeprRate, daysHeld) ==
    dailyDeprRate * daysHeld

accumDeprOf(depreciableAmount, dailyDeprRate, daysHeld) ==
    Min(depreciableAmount, dailyDeprRate * daysHeld)

\* a disposal that would take the component off the books a day late
OnlyAfterDisposal(dispDate, normalizedTarget) ==
    dispDate # NoDate /\ isAfter(normalizedTarget, dispDate)

OnOrAfterDisposal(dispDate, normalizedTarget) ==
    dispDate # NoDate
    /\ (isAfter(normalizedTarget, subDays(dispDate, 1)) \/ normalizedTarget = dispDate)

\* a snapshot that would write a component without useful life off over one year
ifrsValuesOfAtLeastOneYear(comp, daysHeld, totalRevalImpact) ==
    LET totalImpairment == orZero(comp, "impairmentLoss")
        grossCarryingAmount == comp.cost + totalRevalImpact - totalImpairment
        residual == orZero(comp, "residualValue")
        depreciableAmount == depreciableAmountOf(grossCarryingAmount, residual)
        annualDepr == IF comp.usefulLifeYears > 0
                      THEN depreciableAmount \div comp.usefulLifeYears
                      ELSE depreciableAmount
        dailyDeprRate == PerDay(annualDepr)
    IN  [cost |-> comp.cost,
         accumDepr |-> accumDeprOf(depreciableAmount, dailyDeprRate, daysHeld),
         impairments |-> totalImpairment,
         revaluations |-> totalRevalImpact,
         residual |-> residual]

\* the snapshot of a component that is on the books
ifrsValuesOf(comp, daysHeld, totalRevalImpact) ==
    LET totalImpairment == orZero(comp, "impairmentLoss")
        grossCarryingAmount == comp.cost + totalRevalImpact - totalImpairment
        residual == orZero(comp, "residualValue")
        depreciableAmount == depreciableAmountOf(grossCarryingAmount, residual)
        annualDepr == IF comp.usefulLifeYears > 0
                      THEN depreciableAmount \div comp.usefulLifeYears ELSE 0
        dailyDeprRate == PerDay(annualDepr)
    IN  [cost |-> comp.cost,
         accumDepr |-> accumDeprOf(depreciableAmount, dailyDeprRate, daysHeld),
         impairments |-> totalImpairment,
         revaluations |-> totalRevalImpact,
         residual |-> residual]

effectiveDeprEndOf(dispDate, normalizedTarget) ==
    IF dispDate # NoDate /\ isAfter(normalizedTarget, subDays(dispDate, 1))
    THEN subDays(dispDate, 1) ELSE normalizedTarget

\* a snapshot that would not count the acquisition day among the days held
getIFRSValuesAtExclusive(comp, targetDate) ==
    IF isBefore(targetDate, acqDateOf(comp)) THEN ZeroIFRS
    ELSE IF OnOrAfterDisposal(dispDateOf(comp), targetDate) THEN ZeroIFRS
    ELSE ifrsValuesOf(comp,
             Max(0, differenceInDays(effectiveDeprEndOf(dispDateOf(comp), targetDate),
                                     acqDateOf(comp))),
             totalRevalImpactAt(comp, targetDate))

getIFRSValuesAt(comp, targetDate) ==
    IF isBefore(targetDate, acqDateOf(comp)) THEN ZeroIFRS
    ELSE IF OnOrAfterDisposal(dispDateOf(comp), targetDate) THEN ZeroIFRS
    ELSE ifrsValuesOf(comp,
             Max(0, differenceInDays(effectiveDeprEndOf(dispDateOf(comp), targetDate),
                                     acqDateOf(comp)) + 1),
             totalRevalImpactAt(comp, targetDate))

ZeroSARS == [cost |-> 0, taxValue |-> 0, accumTaxDepr |-> 0, currentTaxYear |-> 0]

currentTaxYearOf(acqDate, normalizedTarget) ==
    Max(1, getFiscalYear(normalizedTarget) - getFiscalYear(acqDate) + 1)

\* for (y = 1; y <= currentTaxYear; y++) accumTaxDepr += getTaxYearDeduction(...)
RECURSIVE SumDeductions(_, _, _)
SumDeductions(comp, strategy, upTo) ==
    IF upTo < 1 THEN 0
    ELSE SumDeductions(comp, strategy, upTo - 1) + getTaxYearDeduction(comp, strategy, upTo)

\* a flat-rate allowance that would run on past the cost
flatAccumTaxDeprUncapped(comp, category, daysHeld) ==
    LET annualTaxDepr == Percent(comp.cost, category.defaultTaxRate)
    IN  PerDay(annualTaxDepr) * daysHeld

flatAccumTaxDepr(comp, category, daysHeld) ==
    LET annualTaxDepr == Percent(comp.cost, category.defaultTaxRate)
    IN  Min(comp.cost, PerDay(annualTaxDepr) * daysHeld)

scheduleAccumTaxDepr(comp, category, currentTaxYear) ==
    Min(comp.cost, SumDeductions(comp, category.taxStrategy, currentTaxYear))

sarsValuesOf(comp, accumTaxDepr, currentTaxYear) ==
    [cost |-> comp.cost,
     taxValue |-> Max(0, comp.cost - accumTaxDepr),
     accumTaxDepr |-> accumTaxDepr,
     currentTaxYear |-> currentTaxYear]

accumTaxDeprOf(comp, category, daysHeld, currentTaxYear) ==
    IF category.taxStrategy = STANDARD_FLAT
    THEN flatAccumTaxDepr(comp, category, daysHeld)
    ELSE scheduleAccumTaxDepr(comp, category, currentTaxYear)

\* a tax snapshot that would not count the acquisition day among the days held
getSARSValuesAtExclusive(comp, category, targetDate) ==
    IF isBefore(targetDate, acqDateOf(comp)) THEN ZeroSARS
    ELSE IF OnOrAfterDisposal(dispDateOf(comp), targetDate) THEN ZeroSARS
    ELSE sarsValuesOf(comp,
             accumTaxDeprOf(comp, category,
                 Max(0, differenceInDays(targetDate, acqDateOf(comp))),
                 currentTaxYearOf(acqDateOf(comp), targetDate)),
             currentTaxYearOf(acqDateOf(comp), targetDate))

getSARSValuesAt(comp, category, targetDate) ==
    IF isBefore(targetDate, acqDateOf(comp)) THEN ZeroSARS
    ELSE IF OnOrAfterDisposal(dispDateOf(comp), targetDate) THEN ZeroSARS
    ELSE sarsValuesOf(comp,
             accumTaxDeprOf(comp, category,
                 Max(0, differenceInDays(targetDate, acqDateOf(comp)) + 1),
                 currentTaxYearOf(acqDateOf(comp), targetDate)),
             currentTaxYearOf(acqDateOf(comp), targetDate))

----------------------------------------------------------------------------
(* Period movement of one component *)

\* a period that would count the day before its first day as well
WithinPeriodFromDayBefore(date, dayBeforeStart, reportEndDate) ==
    ~isBefore(date, dayBeforeStart) /\ (isBefore(date, reportEndDate) \/ date = reportEndDate)

WithinPeriod(date, dayBeforeStart, reportEndDate) ==
    isAfter(date, dayBeforeStart) /\ (isBefore(date, reportEndDate) \/ date = reportEndDate)

\* additions that would leave out an acquisition on the last day of the period
additionsOfBeforeEnd(comp, dayBeforeStart, reportEndDate) ==
    IF isAfter(acqDateOf(comp), dayBeforeStart) /\ isBefore(acqDateOf(comp), reportEndDate)
    THEN comp.cost ELSE 0

additionsOf(comp, dayBeforeStart, reportEndDate) ==
    IF WithinPeriod(acqDateOf(comp), dayBeforeStart, reportEndDate) THEN comp.cost ELSE 0

NoDisposal ==
    [disposals |-> 0, accumDeprOnDisp |-> 0, taxDeprOnDisp |-> 0,
     profitOnDisp |-> 0, recoupment |-> 0]

recoupmentOf(comp, proceeds, taxValAtDisp) ==
    IF proceeds > taxValAtDisp.taxValue
    THEN Min(proceeds - taxValAtDisp.taxValue, comp.cost - taxValAtDisp.taxValue)
    ELSE 0

\* disposal figures whose profit would be measured against the gross cost removed
disposalFiguresOnGross(comp, valAtDisp, taxValAtDisp) ==
    LET disposals == valAtDisp.cost + valAtDisp.revaluations - valAtDisp.impairments
    IN  [disposals |-> disposals,
         accumDeprOnDisp |-> valAtDisp.accumDepr,
         taxDeprOnDisp |-> taxValAtDisp.accumTaxDepr,
         profitOnDisp |-> orZero(comp, "disposalProceeds") - disposals,
         recoupment |-> recoupmentOf(comp, orZero(comp, "disposalProceeds"), taxValAtDisp)]

\* the figures of a disposal inside the period, from the snapshots of the day before it
disposalFigures(comp, valAtDisp, taxValAtDisp) ==
    LET disposals == valAtDisp.cost + valAtDisp.revaluations - valAtDisp.impairments
        nbvAtDisp == disposals - valAtDisp.accumDepr
    IN  [disposals |-> disposals,
         accumDeprOnDisp |-> valAtDisp.accumDepr,
         taxDeprOnDisp |-> taxValAtDisp.accumTaxDepr,
         profitOnDisp |-> orZero(comp, "disposalProceeds") - nbvAtDisp,
         recoupment |-> recoupmentOf(comp, orZero(comp, "disposalProceeds"), taxValAtDisp)]

\* disposal figures that would be read off the disposal day itself
disposalOfOnTheDay(comp, category, dayBeforeStart, reportEndDate) ==
    IF dispDateOf(comp) # NoDate
       /\ WithinPeriod(dispDateOf(comp), dayBeforeStart, reportEndDate)
    THEN disposalFigures(comp,
             getIFRSValuesAt(comp, dispDateOf(comp)),
             getSARSValuesAt(comp, category, dispDateOf(comp)))
    ELSE NoDisposal

disposalOf(comp, category, dayBeforeStart, reportEndDate) ==
    IF dispDateOf(comp) # NoDate
       /\ WithinPeriod(dispDateOf(comp), dayBeforeStart, reportEndDate)
    THEN disposalFigures(comp,
             getIFRSValuesAt(comp, subDays(dispDateOf(comp), 1)),
             getSARSValuesAt(comp, category, subDays(dispDateOf(comp), 1)))
    ELSE NoDisposal

\* a charge that would not add back what left with a disposal
periodicDeprWithoutAddBack(closingAccum, openingAccum, accumOnDisp) ==
    Max(0, closingAccum - openingAccum)

periodicDeprOf(closingAccum, openingAccum, accumOnDisp) ==
    Max(0, closingAccum - openingAccum + accumOnDisp)

\* the net book value without the floor at the residual value
nbvUnfloored(ifrsCl) ==
    (ifrsCl.cost + ifrsCl.revaluations - ifrsCl.impairments) - ifrsCl.accumDepr

nbvOf(ifrsCl) ==
    Max(ifrsCl.residual, (ifrsCl.cost + ifrsCl.revaluations - ifrsCl.impairments) - ifrsCl.accumDepr)

\* the record returned for one component
movementOf(additions, ifrsOp, ifrsCl, sarsOp, sarsCl, disp) ==
    [openingCost |-> ifrsOp.cost + ifrsOp.revaluations - ifrsOp.impairments,
     additions |-> additions,
     disposals |-> disp.disposals,
     revaluations |-> ifrsCl.revaluations - ifrsOp.revaluations,
     impairments |-> ifrsCl.impairments - ifrsOp.impairments,
     closingCost |-> ifrsCl.cost + ifrsCl.revaluations - ifrsCl.impairments,
     openingAccumulatedDepr |-> ifrsOp.accumDepr,
     periodicDepr |-> periodicDeprOf(ifrsCl.accumDepr, ifrsOp.accumDepr, disp.accumDeprOnDisp),
     accumulatedDeprOnDisposals |-> disp.accumDeprOnDisp,
     closingAccumulatedDepr |-> ifrsCl.accumDepr,
     nbv |-> nbvOf(ifrsCl),
     taxValue |-> sarsCl.taxValue,
     taxDeductionForPeriod |->
         periodicDeprOf(sarsCl.accumTaxDepr, sarsOp.accumTaxDepr, disp.taxDeprOnDisp),
     openingAccumulatedTaxDepr |-> sarsOp.accumTaxDepr,
     taxDeprOnDisposals |-> disp.taxDeprOnDisp,
     closingAccumulatedTaxDepr |-> sarsCl.accumTaxDepr,
     taxYearOfAsset |-> sarsCl.currentTaxYear,
     profitOnDisposal |-> disp.profitOnDisp,
     recoupment |-> disp.recoupment,
     hasDisposal |-> disp.disposals > 0]

\* a movement whose opening snapshot is taken on the first day of the period
calculateComponentDepreciationOpeningAtStart(comp, reportStartDate, reportEndDate, category) ==
    movementOf(additionsOf(comp, subDays(reportStartDate, 1), reportEndDate),
               getIFRSValuesAt(comp, reportStartDate),
               getIFRSValuesAt(comp, reportEndDate),
               getSARSValuesAt(comp, category, reportStartDate),
               getSARSValuesAt(comp, category, reportEndDate),
               disposalOf(comp, category, subDays(reportStartDate, 1), reportEndDate))

calculateComponentDepreciation(comp, reportStartDate, reportEndDate, category) ==
    movementOf(additionsOf(comp, subDays(reportStartDate, 1), reportEndDate),
               getIFRSValuesAt(comp, subDays(reportStartDate, 1)),
               getIFRSValuesAt(comp, reportEndDate),
               getSARSValuesAt(comp, category, subDays(reportStartDate, 1)),
               getSARSValuesAt(comp, category, reportEndDate),
               disposalOf(comp, category, subDays(reportStartDate, 1), reportEndDate))

----------------------------------------------------------------------------
(* Aggregation per asset *)

\* a lookup that would fall back on the first category of the list
findCategoryOrFirst(cats, id) ==
    IF cats = <<>> THEN <<>>
    ELSE IF \E k \in DOMAIN cats : cats[k].id = id
         THEN <<cats[CHOOSE k \in DOMAIN cats :
                        cats[k].id = id /\ \A j \in 1..(k-1) : cats[j].id # id]>>
         ELSE <<Head(cats)>>

\* categories.find(c => c.id === asset.categoryId): the first match, or <<>>
RECURSIVE findCategory(_, _)
findCategory(cats, id) ==
    IF cats = <<>> THEN <<>>
    ELSE IF Head(cats).id = id THEN <<Head(cats)>>
    ELSE findCategory(Tail(cats), id)

NotFoundResult(a) ==
    [assetId |-> a.id,
     openingCost |-> 0, additions |-> 0, disposals |-> 0, revaluations |-> 0,
     impairments |-> 0, closingCost |-> 0,
     openingAccumulatedDepr |-> 0, periodicDepr |-> 0, accumulatedDeprOnDisposals |-> 0,
     closingAccumulatedDepr |-> 0, nbv |-> 0, taxValue |-> 0, taxDeductionForPeriod |-> 0,
     openingAccumulatedTaxDepr |-> 0, taxDeprOnDisposals |-> 0,
     closingAccumulatedTaxDepr |-> 0, taxYearOfAsset |-> 0]

TotalInit ==
    [openingCost |-> 0, additions |-> 0, disposals |-> 0, revaluations |-> 0,
     impairments |-> 0, closingCost |-> 0,
     openingAccumulatedDepr |-> 0, periodicDepr |-> 0, accumulatedDeprOnDisposals |-> 0,
     closingAccumulatedDepr |-> 0, nbv |-> 0, taxValue |-> 0, taxDeductionForPeriod |-> 0,
     openingAccumulatedTaxDepr |-> 0, taxDeprOnDisposals |-> 0,
     closingAccumulatedTaxDepr |-> 0, taxYearOfAsset |-> 0,
     profitOnDisposal |-> 0, recoupment |-> 0, hasAnyDisposal |-> FALSE]

TotalStep(acc, curr) ==
    [openingCost |-> acc.openingCost + curr.openingCost,
     additions |-> acc.additions + curr.additions,
     disposals |-> acc.disposals + curr.disposals,
     revaluations |-> acc.revaluations + curr.revaluations,
     impairments |-> acc.impairments + curr.impairments,
     closingCost |-> acc.closingCost + curr.closingCost,
     openingAccumulatedDepr |-> acc.openingAccumulatedDepr + curr.openingAccumulatedDepr,
     periodicDepr |-> acc.periodicDepr + curr.periodicDepr,
     accumulatedDeprOnDisposals |->
         acc.accumulatedDeprOnDisposals + curr.accumulatedDeprOnDisposals,
     closingAccumulatedDepr |-> acc.closingAccumulatedDepr + curr.closingAccumulatedDepr,
     nbv |-> acc.nbv + curr.nbv,
     taxValue |-> acc.taxValue + curr.taxValue,
     taxDeductionForPeriod |-> acc.taxDeductionForPeriod + curr.taxDeductionForPeriod,
     openingAccumulatedTaxDepr |->
         acc.openingAccumulatedTaxDepr + curr.openingAccumulatedTaxDepr,
     taxDeprOnDisposals |-> acc.taxDeprOnDisposals + curr.taxDeprOnDisposals,
     closingAccumulatedTaxDepr |->
         acc.closingAccumulatedTaxDepr + curr.closingAccumulatedTaxDepr,
     taxYearOfAsset |-> Max(acc.taxYearOfAsset, curr.taxYearOfAsset),
     profitOnDisposal |-> acc.profitOnDisposal + curr.profitOnDisposal,
     recoupment |-> acc.recoupment + curr.recoupment,
     hasAnyDisposal |-> acc.hasAnyDisposal \/ curr.hasDisposal]

\* a reduction that would stop after the first component
ReduceTotalOfFirst(results, acc) ==
    IF results = <<>> THEN acc ELSE TotalStep(acc, Head(results))

RECURSIVE ReduceTotal(_, _)
ReduceTotal(results, acc) ==
    IF results = <<>> THEN acc
    ELSE ReduceTotal(Tail(results), TotalStep(acc, Head(results)))

\* asset.components.map(c => calculateComponentDepreciation(c, start, end, category))
componentResults(a, reportStartDate, reportEndDate, category) ==
    [i \in DOMAIN a.components |->
        calculateComponentDepreciation(a.components[i], reportStartDate, reportEndDate, category)]

finalResult(a, total) ==
    [total EXCEPT !.profitOnDisposal = IF total.hasAnyDisposal THEN total.profitOnDisposal ELSE 0,
                  !.recoupment = IF total.hasAnyDisposal THEN total.recoupment ELSE 0]
       @@ [assetId |-> a.id]

calculateDepreciation(a, reportStartDate, reportEndDate, cats) ==
    IF findCategory(cats, a.categoryId) = <<>> THEN NotFoundResult(a)
    ELSE finalResult(a, ReduceTotal(
             componentResults(a, reportStartDate, reportEndDate,
                              findCategory(cats, a.categoryId)[1]),
             TotalInit))

----------------------------------------------------------------------------
(* Inputs *)

MaxRevals == 2

MaxComponents == 2

D_2023_06_29 == DayOf(2023, 6, 29)

D_2023_06_30 == DayOf(2023, 6, 30)

D_2023_07_01 == DayOf(2023, 7, 1)

D_2023_07_02 == DayOf(2023, 7, 2)

D_2024_06_30 == DayOf(2024, 6, 30)

D_2024_07_01 == DayOf(2024, 7, 1)

D_2026_07_01 == DayOf(2026, 7, 1)

D_2043_07_01 == DayOf(2043, 7, 1)

AcqDates == {D_2023_06_30, D_2023_07_01}

TargetDates ==
    {D_2023_06_29, D_2023_06_30, D_2023_07_01, D_2023_07_02,
     D_2024_06_30, D_2024_07_01, D_2026_07_01, D_2043_07_01}

Periods ==
    {p \in {D_2023_06_30, D_2023_07_01, D_2024_07_01}
           \X {D_2023_06_30, D_2023_07_01, D_2024_06_30, D_2024_07_01, D_2026_07_01} :
        p[1] <= p[2]}

SeqsUpTo(S, n) == UNION {[1..k -> S] : k \in 0..n}

RevalEvents ==
    {[date |-> D_2023_07_01, newFairValue |-> Rand(1200)],
     [date |-> D_2024_07_01, newFairValue |-> Rand(200)],
     [date |-> D_2024_07_01, newFairValue |-> Rand(1200)]}

\* status, disposalDate, disposalProceeds as the entry form can leave them
Retirements ==
    {[status |-> ACTIVE,   disposalDate |-> NoDate,       disposalProceeds |-> 0],
     [status |-> IMPAIRED, disposalDate |-> NoDate,       disposalProceeds |-> 0],
     [status |-> ACTIVE,   disposalDate |-> D_2024_07_01, disposalProceeds |-> Rand(300)],
     [status |-> DISPOSED, disposalDate |-> NoDate,       disposalProceeds |-> 0],
     [status |-> SCRAPPED, disposalDate |-> D_2024_07_01, disposalProceeds |-> 0],
     [status |-> IMPAIRED, disposalDate |-> D_2024_07_01, disposalProceeds |-> Rand(300)],
     [status |-> SCRAPPED, disposalDate |-> NoDate,       disposalProceeds |-> Rand(300)]}
    \cup
    [status : {DISPOSED},
     disposalDate : {D_2023_06_30, D_2023_07_01, D_2024_07_01},
     disposalProceeds : {0, Rand(300), Rand(2000)}]

Component(acq, cost, residual, life, retirement, revals, impairment) ==
    [acquisitionDate |-> acq, cost |-> cost, residualValue |-> residual,
     usefulLifeYears |-> life, status |-> retirement.status,
     disposalDate |-> retirement.disposalDate,
     disposalProceeds |-> retirement.disposalProceeds,
     revaluations |-> revals, impairmentLoss |-> impairment]

\* components that exercise the IFRS basis: revaluations, impairment, residual, life
IFRSComponents ==
    {Component(acq, Rand(1000), residual, life, ret, revals, imp) :
        acq \in AcqDates, residual \in {0, Rand(100)}, life \in {0, 2},
        ret \in {r \in Retirements : r.disposalProceeds \in {0, Rand(300)}},
        revals \in SeqsUpTo(RevalEvents, MaxRevals),
        imp \in {0, Rand(200), Rand(1000)}}

\* components that exercise the tax basis: cost, proceeds, every schedule
TaxComponents ==
    {Component(acq, cost, 0, 2, ret, <<>>, 0) :
        acq \in AcqDates, cost \in {0, Rand(1000)}, ret \in Retirements}

\* components of the multi-component assets
CatalogComponents ==
    {Component(D_2023_06_30, Rand(1000), 0, 2,
               [status |-> ACTIVE, disposalDate |-> NoDate, disposalProceeds |-> 0],
               <<>>, 0),
     Component(D_2023_07_01, Rand(1000), Rand(100), 2,
               [status |-> DISPOSED, disposalDate |-> D_2024_07_01,
                disposalProceeds |-> Rand(2000)],
               <<[date |-> D_2023_07_01, newFairValue |-> Rand(1200)]>>, Rand(200)),
     Component(D_2023_07_01, Rand(1000), 0, 2,
               [status |-> DISPOSED, disposalDate |-> D_2023_07_01,
                disposalProceeds |-> Rand(300)],
               <<>>, 0)}

Category(id, strategy, rate) ==
    [id |-> id, taxStrategy |-> strategy, defaultTaxRate |-> rate]

AllCategories ==
    << Category("cat-flat-20", STANDARD_FLAT, 20),
       Category("cat-flat-0", STANDARD_FLAT, 0),
       Category("cat-flat-50", STANDARD_FLAT, 50),
       Category("cat-12c", SARS_12C_40_20, 20),
       Category("cat-12b", SARS_12B_50_30_20, 20),
       Category("cat-full", SARS_FULL_100, 20),
       Category("cat-13", SARS_13_5, 20) >>

CategoryIds == {AllCategories[i].id : i \in DOMAIN AllCategories}

Asset(id, categoryId, components) ==
    [id |-> id, categoryId |-> categoryId, components |-> components]

Assets ==
    {Asset("a-ifrs", "cat-flat-20", <<c>>) : c \in IFRSComponents}
    \cup {Asset("a-tax", cid, <<c>>) : cid \in CategoryIds, c \in TaxComponents}
    \cup {Asset("a-multi", cid, cs) :
            cid \in {"cat-flat-20", "cat-12c", "cat-missing"},
            cs \in SeqsUpTo(CatalogComponents, MaxComponents)}

----------------------------------------------------------------------------
(* State machine: an asset register entry and the engine call made on it.   *)
(* call is the call whose value the caller holds, or none.                  *)

Init ==
    /\ asset \in Assets
    /\ categories = AllCategories
    /\ call = [op |-> "none"]

CategoryResolved == findCategory(categories, asset.categoryId) # <<>>

categoryOfAsset == findCategory(categories, asset.categoryId)[1]

Idle == call.op = "none"

\* the IFRS snapshot of one component at a target date
IFRSValuesAt ==
    /\ Idle
    /\ CategoryResolved
    /\ \E i \in DOMAIN asset.components, t \in TargetDates :
          call' = [op |-> "getIFRSValuesAt", comp |-> i, targetDate |-> t,
                   ret |-> getIFRSValuesAt(asset.components[i], t)]
    /\ UNCHANGED <<asset, categories>>

\* the tax snapshot of one component at a target date
SARSValuesAt ==
    /\ Idle
    /\ CategoryResolved
    /\ \E i \in DOMAIN asset.components, t \in TargetDates :
          call' = [op |-> "getSARSValuesAt", comp |-> i, targetDate |-> t,
                   ret |-> getSARSValuesAt(asset.components[i], categoryOfAsset, t)]
    /\ UNCHANGED <<asset, categories>>

\* calculateDepreciation over one reporting period, with the per-component results
Calculate ==
    /\ Idle
    /\ \E p \in Periods :
          call' = [op |-> "calculateDepreciation",
                   reportStartDate |-> p[1], reportEndDate |-> p[2],
                   results |-> IF CategoryResolved
                               THEN componentResults(asset, p[1], p[2], categoryOfAsset)
                               ELSE <<>>,
                   ret |-> calculateDepreciation(asset, p[1], p[2], categories)]
    /\ UNCHANGED <<asset, categories>>

\* the caller has consumed the value; the engine keeps nothing between calls
Return ==
    /\ ~Idle
    /\ call' = [op |-> "none"]
    /\ UNCHANGED <<asset, categories>>

Next == IFRSValuesAt \/ SARSValuesAt \/ Calculate \/ Return

Spec == Init /\ [][Next]_vars

----------------------------------------------------------------------------
(* The inputs keep every division of the engine exact *)

ExactInputs ==
    \A i \in DOMAIN asset.components :
        LET c == asset.components[i]
        IN  /\ c.cost % (4 * MoneyUnit) = 0
            /\ c.residualValue % (4 * MoneyUnit) = 0
            /\ c.impairmentLoss % (4 * MoneyUnit) = 0
            /\ \A k \in DOMAIN c.revaluations :
                  c.revaluations[k].newFairValue % (4 * MoneyUnit) = 0
            /\ c.usefulLifeYears > 0 => 100 % c.usefulLifeYears = 0

----------------------------------------------------------------------------
(* The statutory schedules on their own: getTaxYearDeduction for every tax  *)
(* year, also those the accrual loop never asks for (below 1, beyond the    *)
(* schedule).  The function is linear in cost and divides by 100 only, so   *)
(* whole-rand costs are exact here.                                         *)

MaxTaxYear == 22

ScheduleAssets ==
    {Asset("a-schedule", cid,
           <<Component(D_2023_07_01, cost, 0, 2,
                       [status |-> ACTIVE, disposalDate |-> NoDate, disposalProceeds |-> 0],
                       <<>>, 0)>>) :
        cid \in CategoryIds, cost \in {0, 100000, Rand(1000)}}

InitSchedule ==
    /\ asset \in ScheduleAssets
    /\ categories = AllCategories
    /\ call = [op |-> "none"]

\* the deduction of one tax year for the asset's component under its category's schedule
TaxYearDeduction ==
    /\ Idle
    /\ CategoryResolved
    /\ \E i \in DOMAIN asset.components, y \in 0..MaxTaxYear :
          call' = [op |-> "getTaxYearDeduction", comp |-> i, taxYear |-> y,
                   ret |-> getTaxYearDeduction(asset.components[i],
                                               categoryOfAsset.taxStrategy, y)]
    /\ UNCHANGED <<asset, categories>>

NextSchedule == TaxYearDeduction \/ Return

SpecSchedule == InitSchedule /\ [][NextSchedule]_vars

----------------------------------------------------------------------------
(* The worked scenario: one component of cost 55 000, residual 0, useful    *)
(* life 10 years, acquired 2023-01-15, kept or sold on 2023-07-01, reported *)
(* over windows of the calendar year 2023.                                  *)

D_2023_01_01 == DayOf(2023, 1, 1)

D_2023_01_15 == DayOf(2023, 1, 15)

D_2023_12_31 == DayOf(2023, 12, 31)

ScenarioDates == {D_2023_01_01, D_2023_01_15, D_2023_06_30, D_2023_07_01, D_2023_12_31}

ScenarioPeriods ==
    {p \in {D_2023_01_01, D_2023_01_15, D_2023_07_01}
           \X {D_2023_06_30, D_2023_07_01, D_2023_12_31} : p[1] <= p[2]}

ScenarioRetirements ==
    {[status |-> ACTIVE,   disposalDate |-> NoDate,       disposalProceeds |-> 0],
     [status |-> DISPOSED, disposalDate |-> D_2023_07_01, disposalProceeds |-> Rand(40000)],
     [status |-> DISPOSED, disposalDate |-> D_2023_07_01, disposalProceeds |-> Rand(54000)]}

ScenarioAssets ==
    {Asset("a-scenario", cid,
           <<Component(D_2023_01_15, Rand(55000), 0, 10, ret, <<>>, 0)>>) :
        cid \in CategoryIds, ret \in ScenarioRetirements}

InitScenario ==
    /\ asset \in ScenarioAssets
    /\ categories = AllCategories
    /\ call = [op |-> "none"]

\* calculateDepreciation over a window of 2023
CalculateScenario ==
    /\ Idle
    /\ \E p \in ScenarioPeriods :
          call' = [op |-> "calculateDepreciation",
                   reportStartDate |-> p[1], reportEndDate |-> p[2],
                   results |-> IF CategoryResolved
                               THEN componentResults(asset, p[1], p[2], categoryOfAsset)
                               ELSE <<>>,
                   ret |-> calculateDepreciation(asset, p[1], p[2], categories)]
    /\ UNCHANGED <<asset, categories>>

\* the IFRS snapshot of the component on a day of 2023
IFRSValuesAtScenario ==
    /\ Idle
    /\ CategoryResolved
    /\ \E i \in DOMAIN asset.components, t \in ScenarioDates :
          call' = [op |-> "getIFRSValuesAt", comp |-> i, targetDate |-> t,
                   ret |-> getIFRSValuesAt(asset.components[i], t)]
    /\ UNCHANGED <<asset, categories>>

NextScenario == CalculateScenario \/ IFRSValuesAtScenario \/ Return

SpecScenario == InitScenario /\ [][NextScenario]_vars

----------------------------------------------------------------------------
(* Partially populated records: components without useful life, and         *)
(* components that lack the optional fields of AssetComponent.              *)

OptionalFields == {"residualValue", "impairmentLoss", "revaluations", "disposalProceeds"}

\* the record without some of its fields
Without(comp, fields) == [f \in DOMAIN comp \ fields |-> comp[f]]

DegenerateComponents ==
    {Without(Component(D_2023_06_30, Rand(1000), Rand(100), life, ret,
                       <<[date |-> D_2023_07_01, newFairValue |-> Rand(1200)]>>,
                       Rand(200)),
             missing) :
        life \in {-1, 0, 2},
        ret \in {[status |-> ACTIVE, disposalDate |-> NoDate, disposalProceeds |-> 0],
                 [status |-> DISPOSED, disposalDate |-> D_2024_07_01,
                  disposalProceeds |-> Rand(300)]},
        missing \in SUBSET OptionalFields}

DegenerateAssets == {Asset("a-degenerate", "cat-flat-20", <<c>>) : c \in DegenerateComponents}

InitDegenerate ==
    /\ asset \in DegenerateAssets
    /\ categories = AllCategories
    /\ call = [op |-> "none"]

SpecDegenerate == InitDegenerate /\ [][Next]_vars

----------------------------------------------------------------------------
(* What a call leaves behind, and repeated calls.  The engine assigns to no *)
(* field of its arguments: the revaluation list is filtered into a new      *)
(* array before it is sorted, and categories are only searched.  call keeps *)
(* the arguments as they were when the first call was made.                 *)

\* the component as calculateComponentDepreciation leaves it
componentAfterSortingInPlace(comp) == [comp EXCEPT !.revaluations = SortByDate(@)]

componentAfterCall(comp) == comp

assetAfterCall(a) ==
    [a EXCEPT !.components = [i \in DOMAIN a.components |-> componentAfterCall(a.components[i])]]

\* assets of other register entries, evaluated between two calls
OtherAssets ==
    {Asset("a-other", cid, <<c>>) : cid \in {"cat-12c", "cat-missing"}, c \in CatalogComponents}

\* a first call: calculateDepreciation(asset, start, end, categories)
CalculateOnce ==
    /\ Idle
    /\ \E p \in Periods :
          call' = [op |-> "calculateDepreciation",
                   reportStartDate |-> p[1], reportEndDate |-> p[2],
                   assetBefore |-> asset, categoriesBefore |-> categories,
                   ret |-> calculateDepreciation(asset, p[1], p[2], categories)]
    /\ asset' = assetAfterCall(asset)
    /\ categories' = categories

\* a call for another asset, made between the first call and its repetition
CalculateOther ==
    /\ call.op = "calculateDepreciation"
    /\ \E o \in OtherAssets :
          call' = [op |-> "other", first |-> call,
                   ret |-> calculateDepreciation(o, call.reportStartDate,
                                                 call.reportEndDate, categories)]
    /\ UNCHANGED <<asset, categories>>

\* the call made first
firstCall == IF call.op = "other" THEN call.first ELSE call

\* the same call once more, on the arguments as the earlier calls left them
CalculateAgain ==
    /\ call.op \in {"calculateDepreciation", "other"}
    /\ call' = [op |-> "again", first |-> firstCall,
                ret |-> calculateDepreciation(asset, firstCall.reportStartDate,
                                              firstCall.reportEndDate, categories)]
    /\ asset' = assetAfterCall(asset)
    /\ categories' = categories

NextPurity == CalculateOnce \/ CalculateOther \/ CalculateAgain \/ Return

SpecPurity == Init /\ [][NextPurity]_vars

----------------------------------------------------------------------------
(* The asset form: asset is formData, the copy of a registered asset that   *)
(* the form edits; call is the handler that ran last.  The handlers read    *)
(* today's date from the clock.                                             *)

Todays == {D_2024_06_30, D_2026_07_01}

FormCategories ==
    << Category("cat-flat-20", STANDARD_FLAT, 20) @@ [residualPercentage |-> 10] >>

FormComponents ==
    {Component(D_2023_06_30, Rand(1000), Rand(100), 2, ret, <<>>, 0) :
        ret \in {[status |-> ACTIVE, disposalDate |-> NoDate, disposalProceeds |-> 0],
                 [status |-> IMPAIRED, disposalDate |-> NoDate, disposalProceeds |-> 0],
                 [status |-> DISPOSED, disposalDate |-> D_2023_07_01,
                  disposalProceeds |-> Rand(300)]}}

\* every component retired: the rule handleSubmit saves the asset's status by
allRetired(a) == \A i \in DOMAIN a.components : a.components[i].status # ACTIVE

savedStatus(a) == IF allRetired(a) THEN DISPOSED ELSE ACTIVE

FormAsset(components) ==
    Asset("a-form", "cat-flat-20", components)
        @@ [status |-> savedStatus([components |-> components])]

FormAssets == {FormAsset(<<c1, c2>>) : c1 \in FormComponents, c2 \in FormComponents}

InitForm ==
    /\ asset \in FormAssets
    /\ categories = FormCategories
    /\ call = [op |-> "none"]

\* { ...c, ...updates }: fields of updates replace or extend those of c, and a
\* field given as undefined is left without a value
spread(c, updates, undefined) ==
    Without([f \in DOMAIN c \cup DOMAIN updates |->
                IF f \in DOMAIN updates THEN updates[f] ELSE c[f]],
            undefined)

updateComponent(a, cats, i, updates, undefined) ==
    LET newComp  == spread(a.components[i], updates, undefined)
        category == findCategory(cats, a.categoryId)
    IN  [a EXCEPT !.components[i] =
            IF "cost" \in DOMAIN updates /\ category # <<>>
            THEN [newComp EXCEPT !.residualValue =
                     Percent(updates.cost, category[1].residualPercentage)]
            ELSE newComp]

\* the Retire Unit / Restore Unit button of one component
toggleDisposal ==
    \E i \in DOMAIN asset.components, today \in Todays :
        /\ asset' =
              IF asset.components[i].status = ACTIVE
              THEN updateComponent(asset, categories, i,
                      [status |-> DISPOSED, disposalDate |-> today,
                       disposalProceeds |-> 0], {})
              ELSE updateComponent(asset, categories, i,
                      [status |-> ACTIVE, disposalDate |-> NoDate],
                      {"disposalProceeds"})
        /\ call' = [op |-> "toggleDisposal", comp |-> i]
        /\ UNCHANGED categories

\* Dispose Asset / Scrap Unit, offered while the asset is Active
bulkAction ==
    /\ asset.status = ACTIVE
    /\ \E type \in {"DISPOSE", "SCRAP"}, date \in Todays :
          /\ asset' =
                [asset EXCEPT
                    !.components =
                        [i \in DOMAIN asset.components |->
                            spread(asset.components[i],
                                   [status |-> IF type = "DISPOSE" THEN DISPOSED
                                                                   ELSE SCRAPPED,
                                    disposalDate |-> date,
                                    disposalProceeds |->
                                        IF type = "SCRAP" THEN 0
                                        ELSE orZero(asset.components[i],
                                                    "disposalProceeds")],
                                   {})],
                    !.status = IF type = "DISPOSE" THEN DISPOSED ELSE SCRAPPED]
          /\ call' = [op |-> "bulkAction", type |-> type]
    /\ UNCHANGED categories

\* the inputs of a component: cost and acquisition date while it is Active,
\* disposal date and proceeds in the panel shown once it is not
FieldEdits(comp) ==
    IF comp.status = ACTIVE
    THEN {[cost |-> Rand(2000)], [acquisitionDate |-> D_2023_07_01]}
    ELSE {[disposalDate |-> D_2024_07_01], [disposalDate |-> NoDate],
          [disposalProceeds |-> Rand(300)]}

editField ==
    \E i \in DOMAIN asset.components :
        \E updates \in FieldEdits(asset.components[i]) :
            /\ asset' = updateComponent(asset, categories, i, updates, {})
            /\ call' = [op |-> "updateComponent", comp |-> i]
            /\ UNCHANGED categories

\* save: the asset is stored with the status its components give it
handleSubmit ==
    /\ asset' = [asset EXCEPT !.status = savedStatus(asset)]
    /\ call' = [op |-> "handleSubmit"]
    /\ UNCHANGED categories

NextForm == toggleDisposal \/ bulkAction \/ editField \/ handleSubmit

SpecForm == InitForm /\ [][NextForm]_vars

----------------------------------------------------------------------------
(* Cloud synchronisation of App.  asset and categories are the local data;  *)
(* call holds the synchronisation state of App: dbConfig, hasSyncedInitial, *)
(* the pulls in flight (each on the client that started it), the debounce   *)
(* timer, the handler that ran last with the endpoint it upserted to, and,  *)
(* as history, the endpoints a pull has completed from successfully.        *)

Urls == {"", "url-a", "url-b"}

Keys == {"", "key-1", "key-2"}

DbConfigs == [enabled : BOOLEAN, supabaseUrl : Urls, supabaseKey : Keys]

NoClient == <<>>

\* the client of a configuration: its endpoint and key, or null
supabase(dbConfig) ==
    IF dbConfig.enabled /\ dbConfig.supabaseUrl # "" /\ dbConfig.supabaseKey # ""
    THEN <<dbConfig.supabaseUrl, dbConfig.supabaseKey>>
    ELSE NoClient

SyncAssets ==
    {Asset("a-local", "cat-flat-20", <<c>>) : c \in {x \in CatalogComponents : x.revaluations = <<>>}}

\* the effect that pulls once: it runs when enabled, the client or
\* hasSyncedInitial changed and starts a pull when nothing has been pulled yet
pullsAfterRender(old, new) ==
    IF /\ <<old.dbConfig.enabled, supabase(old.dbConfig), old.hasSyncedInitial>>
            # <<new.dbConfig.enabled, supabase(new.dbConfig), new.hasSyncedInitial>>
       /\ new.dbConfig.enabled /\ supabase(new.dbConfig) # NoClient
       /\ ~new.hasSyncedInitial
    THEN new.inFlight \cup {supabase(new.dbConfig)}
    ELSE new.inFlight

\* the debounce effect: when the data, enabled, the client or hasSyncedInitial
\* changed, the pending timer is cleared and a new one is set if pushing is on
timerAfterRender(old, new, dataChanged) ==
    IF dataChanged
       \/ <<old.dbConfig.enabled, supabase(old.dbConfig), old.hasSyncedInitial>>
            # <<new.dbConfig.enabled, supabase(new.dbConfig), new.hasSyncedInitial>>
    THEN new.dbConfig.enabled /\ supabase(new.dbConfig) # NoClient /\ new.hasSyncedInitial
    ELSE new.timer

afterRender(old, new, dataChanged) ==
    [new EXCEPT !.inFlight = pullsAfterRender(old, new),
                !.timer = timerAfterRender(old, new, dataChanged)]

\* the state after mounting with a stored configuration
Mounted(dbConfig) ==
    [op |-> "none", dbConfig |-> dbConfig, hasSyncedInitial |-> FALSE,
     inFlight |-> IF supabase(dbConfig) # NoClient THEN {supabase(dbConfig)} ELSE {},
     timer |-> FALSE, pulled |-> {}, upsertedTo |-> NoClient]

InitSync ==
    /\ asset \in SyncAssets
    /\ categories = AllCategories
    /\ \E dbConfig \in DbConfigs : call = Mounted(dbConfig)

\* Enable Link, or an edit of the endpoint URL or of the key
onUpdateDb ==
    /\ \E dbConfig \in DbConfigs :
          /\ \/ /\ dbConfig.enabled # call.dbConfig.enabled
                /\ dbConfig.supabaseUrl = call.dbConfig.supabaseUrl
                /\ dbConfig.supabaseKey = call.dbConfig.supabaseKey
             \/ /\ dbConfig.enabled = call.dbConfig.enabled
                /\ dbConfig.supabaseUrl # call.dbConfig.supabaseUrl
                /\ dbConfig.supabaseKey = call.dbConfig.supabaseKey
             \/ /\ dbConfig.enabled = call.dbConfig.enabled
                /\ dbConfig.supabaseUrl = call.dbConfig.supabaseUrl
                /\ dbConfig.supabaseKey # call.dbConfig.supabaseKey
          /\ call' = afterRender(call,
                        [call EXCEPT !.op = "onUpdateDb", !.dbConfig = dbConfig,
                                     !.upsertedTo = NoClient],
                        FALSE)
    /\ UNCHANGED <<asset, categories>>

\* Force Pull / Test Connection: pullFromPostgres(true) up to its await
pullFromPostgres ==
    /\ supabase(call.dbConfig) # NoClient
    /\ call' = [call EXCEPT !.op = "pullFromPostgres", !.upsertedTo = NoClient,
                            !.inFlight = @ \cup {supabase(call.dbConfig)}]
    /\ UNCHANGED <<asset, categories>>

\* a pull in flight answers with data: the rows replace the local data when
\* there are any, and hasSyncedInitial is set
pullSucceeds ==
    \E client \in call.inFlight, rows \in SyncAssets \cup {<<>>} :
        /\ asset' = IF rows # <<>> THEN rows ELSE asset
        /\ call' = afterRender(call,
                      [call EXCEPT !.op = "pullSucceeds", !.upsertedTo = NoClient,
                                   !.inFlight = @ \ {client},
                                   !.hasSyncedInitial = TRUE,
                                   !.pulled = @ \cup {client}],
                      asset' # asset)
        /\ UNCHANGED categories

\* a pull in flight answers with an error: only the connection status changes
pullFails ==
    \E client \in call.inFlight :
        /\ call' = [call EXCEPT !.op = "pullFails", !.upsertedTo = NoClient,
                                !.inFlight = @ \ {client}]
        /\ UNCHANGED <<asset, categories>>

\* an edit of the local data
dataEdit ==
    \E a \in SyncAssets \ {asset} :
        /\ asset' = a
        /\ call' = afterRender(call,
                      [call EXCEPT !.op = "dataEdit", !.upsertedTo = NoClient], TRUE)
        /\ UNCHANGED categories

\* the endpoint pushToPostgres upserts the local data to, if it gets that far
pushTarget(state) ==
    IF supabase(state.dbConfig) = NoClient \/ ~state.dbConfig.enabled
       \/ ~state.hasSyncedInitial
    THEN NoClient
    ELSE supabase(state.dbConfig)

\* Force Push: pushToPostgres(false)
pushToPostgres ==
    /\ call' = [call EXCEPT !.op = "pushToPostgres", !.upsertedTo = pushTarget(call)]
    /\ UNCHANGED <<asset, categories>>

\* the debounce timer fires: pushToPostgres(true)
autoPush ==
    /\ call.timer
    /\ call' = [call EXCEPT !.op = "autoPush", !.timer = FALSE,
                            !.upsertedTo = pushTarget(call)]
    /\ UNCHANGED <<asset, categories>>

NextSync ==
    \/ onUpdateDb
    \/ pullFromPostgres
    \/ pullSucceeds
    \/ pullFails
    \/ dataEdit
    \/ pushToPostgres
    \/ autoPush

SpecSync == InitSync /\ [][NextSync]_vars

----------------------------------------------------------------------------
(* Journals: JournalManager turns the movements of a month into general     *)
(* ledger entries.  asset is one asset of the register, the others are      *)
(* drawn with each call; call is the journal computed last.                 *)

MaxOtherAssets == 1

\* selectedMonth after split('-').map(Number); a text that is no month gives 0
SelectedMonths ==
    {[year |-> 2023, month |-> 6], [year |-> 2023, month |-> 7],
     [year |-> 2024, month |-> 7], [year |-> 0, month |-> 0]}

startOfMonth(year, month) == DayOf(year, month, 1)

endOfMonth(year, month) ==
    IF month = 12 THEN DayOf(year + 1, 1, 1) - 1 ELSE DayOf(year, month + 1, 1) - 1

BranchIds == {"b1", "20-b1"}

JournalComponents ==
    {c \in CatalogComponents : c.revaluations = <<>>}

JournalAssets ==
    {Asset(id, cid, <<c>>) @@ [branchId |-> b] :
        id \in {"a-journal"}, cid \in {"cat-flat-20", "cat-12c", "cat-flat"},
        b \in BranchIds, c \in JournalComponents}

InitJournal ==
    /\ asset \in JournalAssets
    /\ categories = AllCategories
    /\ call = [op |-> "none"]

filteredAssets(assets, selectedBranch) ==
    IF selectedBranch = "all" THEN assets
    ELSE SelectSeq(assets, LAMBDA a : a.branchId = selectedBranch)

\* `${asset.categoryId}-${asset.branchId}`
movementKey(a) == a.categoryId \o "-" \o a.branchId

\* one asset added to the consolidation map, which keeps its keys in the
\* order of their first use
consolidate(movements, a, calc) ==
    IF \E k \in DOMAIN movements : movements[k].key = movementKey(a)
    THEN [k \in DOMAIN movements |->
            IF movements[k].key = movementKey(a)
            THEN [movements[k] EXCEPT !.periodicDepr = @ + calc.periodicDepr,
                                      !.additions = @ + calc.additions]
            ELSE movements[k]]
    ELSE Append(movements,
                [key |-> movementKey(a),
                 periodicDepr |-> calc.periodicDepr, additions |-> calc.additions,
                 categoryId |-> a.categoryId, branchId |-> a.branchId])

RECURSIVE consolidatedMovements(_, _, _, _, _)
consolidatedMovements(assets, n, start, end, cats) ==
    IF n = 0 THEN <<>>
    ELSE consolidate(consolidatedMovements(assets, n - 1, start, end, cats),
                     assets[n],
                     calculateDepreciation(assets[n], start, end, cats))

\* account codes are a ledger and the category that owns it; the bank
\* account '2000/001' belongs to no category
BANK_ACCOUNT == <<"2000/001", "">>

\* a debit entry and its credit entry
entryPair(debitId, creditId, account, contra, amount, branchId, type) ==
    << [id |-> debitId, accountCode |-> account, debit |-> amount, credit |-> 0,
        branchId |-> branchId, type |-> type],
       [id |-> creditId, accountCode |-> contra, debit |-> 0, credit |-> amount,
        branchId |-> branchId, type |-> type] >>

\* an acquisition whose bank entry would carry a type of its own
additionEntriesWithPaymentType(owner, key, additions, branchId) ==
    IF additions > 0
    THEN << entryPair("add-" \o key, "pay-" \o key, <<"glCodeCost", owner>>,
                      BANK_ACCOUNT, additions, branchId, "Addition")[1],
            [entryPair("add-" \o key, "pay-" \o key, <<"glCodeCost", owner>>,
                       BANK_ACCOUNT, additions, branchId, "Addition")[2]
                EXCEPT !.type = "Payment"] >>
    ELSE <<>>

additionEntries(owner, key, additions, branchId) ==
    IF additions > 0
    THEN entryPair("add-" \o key, "pay-" \o key, <<"glCodeCost", owner>>,
                   BANK_ACCOUNT, additions, branchId, "Addition")
    ELSE <<>>

depreciationEntries(owner, key, periodicDepr, branchId) ==
    IF periodicDepr > 0
    THEN entryPair("depr-" \o key, "accum-" \o key, <<"glCodeDeprExpense", owner>>,
                   <<"glCodeAccumDepr", owner>>, periodicDepr, branchId, "Depreciation")
    ELSE <<>>

\* the entries of one consolidated movement; none without its category
movementEntries(movement, cats) ==
    IF findCategory(cats, movement.categoryId) = <<>> THEN <<>>
    ELSE depreciationEntries(movement.categoryId, movement.key,
                             movement.periodicDepr, movement.branchId)
         \o additionEntries(movement.categoryId, movement.key,
                            movement.additions, movement.branchId)

RECURSIVE allEntries(_, _, _)
allEntries(movements, n, cats) ==
    IF n = 0 THEN <<>>
    ELSE allEntries(movements, n - 1, cats) \o movementEntries(movements[n], cats)

typeFilter(entries, selectedType) ==
    IF selectedType = "all" THEN entries
    ELSE SelectSeq(entries, LAMBDA e : e.type = selectedType)

\* the consolidated journal of the month
journals(assets, cats, selectedMonth, selectedBranch, selectedType) ==
    IF selectedMonth.year = 0 \/ selectedMonth.month = 0 THEN <<>>
    ELSE typeFilter(
            allEntries(
                consolidatedMovements(
                    filteredAssets(assets, selectedBranch),
                    Len(filteredAssets(assets, selectedBranch)),
                    startOfMonth(selectedMonth.year, selectedMonth.month),
                    endOfMonth(selectedMonth.year, selectedMonth.month), cats),
                Len(consolidatedMovements(
                    filteredAssets(assets, selectedBranch),
                    Len(filteredAssets(assets, selectedBranch)),
                    startOfMonth(selectedMonth.year, selectedMonth.month),
                    endOfMonth(selectedMonth.year, selectedMonth.month), cats)),
                cats),
            selectedType)

\* the entries of one asset in the journal kept per asset
assetEntries(a, calc, cats) ==
    IF findCategory(cats, a.categoryId) = <<>> THEN <<>>
    ELSE depreciationEntries(a.categoryId, a.id, calc.periodicDepr, a.branchId)
         \o additionEntries(a.categoryId, a.id, calc.additions, a.branchId)

RECURSIVE journalsPerAssetUpTo(_, _, _, _, _)
journalsPerAssetUpTo(assets, n, start, end, cats) ==
    IF n = 0 THEN <<>>
    ELSE journalsPerAssetUpTo(assets, n - 1, start, end, cats)
         \o assetEntries(assets[n],
                         calculateDepreciation(assets[n], start, end, cats), cats)

\* the journal with two entries per asset and movement
journalsPerAsset(assets, cats, selectedMonth, selectedBranch) ==
    IF selectedMonth.year = 0 \/ selectedMonth.month = 0 THEN <<>>
    ELSE journalsPerAssetUpTo(filteredAssets(assets, selectedBranch),
                              Len(filteredAssets(assets, selectedBranch)),
                              startOfMonth(selectedMonth.year, selectedMonth.month),
                              endOfMonth(selectedMonth.year, selectedMonth.month), cats)

Journals ==
    /\ Idle
    /\ \E others \in SeqsUpTo(JournalAssets, MaxOtherAssets),
          selectedMonth \in SelectedMonths,
          selectedBranch \in {"all"} \cup BranchIds,
          selectedType \in {"all", "Depreciation", "Addition"} :
          call' = [op |-> "journals", assets |-> <<asset>> \o others,
                   selectedMonth |-> selectedMonth, selectedBranch |-> selectedBranch,
                   selectedType |-> selectedType,
                   ret |-> journals(<<asset>> \o others, categories, selectedMonth,
                                    selectedBranch, selectedType)]
    /\ UNCHANGED <<asset, categories>>

JournalsPerAsset ==
    /\ Idle
    /\ \E others \in SeqsUpTo(JournalAssets, MaxOtherAssets),
          selectedMonth \in SelectedMonths,
          selectedBranch \in {"all"} \cup BranchIds :
          call' = [op |-> "journalsPerAsset", assets |-> <<asset>> \o others,
                   selectedMonth |-> selectedMonth, selectedBranch |-> selectedBranch,
                   selectedType |-> "all",
                   ret |-> journalsPerAsset(<<asset>> \o others, categories,
                                            selectedMonth, selectedBranch)]
    /\ UNCHANGED <<asset, categories>>

NextJournal == Journals \/ JournalsPerAsset \/ Return

SpecJournal == InitJournal /\ [][NextJournal]_vars

----------------------------------------------------------------------------
(* Locations: LocationManager edits the tree of branches, locations and     *)
(* sublocations.  asset is an asset of the register with its three          *)
(* references; call holds the locations list as last updated, the handler   *)
(* that ran last and the list it started from.                              *)

MaxUnits == 3

\* identifiers as addUnit draws them
UnitIds == {"u1", "u2", "u3"}

ORGANIZATIONAL_UNITS == << [id |-> "br-hq", type |-> "Branch"] >>

\* l.parentId || ''
parentIdOf(l) == IF "parentId" \in DOMAIN l THEN l.parentId ELSE ""

LocatedAssets ==
    {Asset("a-located", "cat-flat-20", <<>>)
        @@ [branchId |-> b, locationId |-> l, subLocationId |-> s] :
        b \in {"br-hq", "u1"}, l \in {"", "u1", "u2"}, s \in {"", "u2", "u3"}}

InitLocations ==
    /\ asset \in LocatedAssets
    /\ categories = AllCategories
    /\ call = [op |-> "none", locations |-> ORGANIZATIONAL_UNITS,
               before |-> ORGANIZATIONAL_UNITS]

idsOf(units) == {units[k].id : k \in DOMAIN units}

\* + Branch, + Location under a branch, + ADD under a location
addUnit ==
    /\ Len(call.locations) < MaxUnits
    /\ \E id \in UnitIds \ idsOf(call.locations) :
          \/ call' = [op |-> "addUnit", before |-> call.locations,
                      locations |-> Append(call.locations,
                                           [id |-> id, type |-> "Branch"])]
          \/ \E k \in DOMAIN call.locations :
                /\ call.locations[k].type \in {"Branch", "Location"}
                /\ call' = [op |-> "addUnit", before |-> call.locations,
                            locations |->
                                Append(call.locations,
                                       [id |-> id,
                                        type |-> IF call.locations[k].type = "Branch"
                                                 THEN "Location" ELSE "Sublocation",
                                        parentId |-> call.locations[k].id])]
    /\ UNCHANGED <<asset, categories>>

childrenIds(locations, id) ==
    {locations[k].id : k \in {j \in DOMAIN locations : parentIdOf(locations[j]) = id}}

subChildrenIds(locations, id) ==
    {locations[k].id : k \in {j \in DOMAIN locations :
        parentIdOf(locations[j]) \in childrenIds(locations, id)}}

\* related units that would stop at the children
allRelatedIdsWithoutGrandchildren(locations, id) ==
    {id} \cup childrenIds(locations, id)

allRelatedIds(locations, id) ==
    {id} \cup childrenIds(locations, id) \cup subChildrenIds(locations, id)

hasAssets(assets, related) ==
    \E k \in DOMAIN assets :
        \/ assets[k].branchId \in related
        \/ assets[k].locationId \in related
        \/ assets[k].subLocationId \in related

\* the list deleteUnit(id) hands to onUpdate, or the list as it was
afterDeleteUnit(locations, assets, id, confirmed) ==
    IF hasAssets(assets, allRelatedIds(locations, id)) THEN locations
    ELSE IF confirmed
         THEN SelectSeq(locations, LAMBDA l : l.id \notin allRelatedIds(locations, id))
         ELSE locations

deleteUnit ==
    /\ \E k \in DOMAIN call.locations, confirmed \in BOOLEAN :
          call' = [op |-> "deleteUnit", id |-> call.locations[k].id,
                   confirmed |-> confirmed, before |-> call.locations,
                   locations |-> afterDeleteUnit(call.locations, <<asset>>,
                                                 call.locations[k].id, confirmed)]
    /\ UNCHANGED <<asset, categories>>

NextLocations == addUnit \/ deleteUnit

SpecLocations == InitLocations /\ [][NextLocations]_vars

----------------------------------------------------------------------------
(* Properties *)

IsIFRSCall == call.op = "getIFRSValuesAt"

IsSARSCall == call.op = "getSARSValuesAt"

IsCalculation == call.op = "calculateDepreciation"

IsDeduction == call.op = "getTaxYearDeduction"

calledComp == asset.components[call.comp]

\* the component exists and has not left the books on that day
OnBooksAt(comp, date) ==
    /\ comp.acquisitionDate <= date
    /\ ~(comp.status \in {DISPOSED, SCRAPPED}
         /\ comp.disposalDate # NoDate /\ comp.disposalDate <= date)

\* the component is retired with a disposal date inside [start, end]
DisposedWithin(comp, start, end) ==
    /\ comp.status \in {DISPOSED, SCRAPPED}
    /\ comp.disposalDate # NoDate
    /\ start <= comp.disposalDate /\ comp.disposalDate <= end

CostRollsForward(r) ==
    r.closingCost = r.openingCost + r.additions - r.disposals + r.revaluations - r.impairments

\* C1: Movement identity.  For every component and period the component result
\* satisfies closingCost = openingCost + additions - disposals + revaluations
\* - impairments, and so does the asset-level result.
C1_MovementIdentity ==
    IsCalculation =>
        /\ \A i \in DOMAIN call.results : CostRollsForward(call.results[i])
        /\ CostRollsForward(call.ret)

DeprRollsForward(r) ==
    r.closingAccumulatedDepr =
        r.openingAccumulatedDepr + r.periodicDepr - r.accumulatedDeprOnDisposals

\* C2: Depreciation roll-forward identity.  For every component and period, also
\* one in which a revaluation takes effect or the component is disposed,
\* closingAccumulatedDepr = openingAccumulatedDepr + periodicDepr
\* - accumulatedDeprOnDisposals.
C2_DeprRollForward ==
    IsCalculation => \A i \in DOMAIN call.results : DeprRollsForward(call.results[i])

DisposedOnOrAfterAcquisition(comp) ==
    (comp.status \in {DISPOSED, SCRAPPED} /\ comp.disposalDate # NoDate)
        => comp.disposalDate >= comp.acquisitionDate

\* C3: Recoupment bound.  For a component disposed inside the period, on or
\* after its acquisition date, recoupment never exceeds the tax allowance
\* accumulated to the day before disposal (taxDeprOnDisposals); the asset-level
\* recoupment is bounded by the sum of taxDeprOnDisposals.
C3_RecoupmentBound ==
    IsCalculation =>
        /\ \A i \in DOMAIN call.results :
              ( /\ DisposedWithin(asset.components[i], call.reportStartDate, call.reportEndDate)
                /\ DisposedOnOrAfterAcquisition(asset.components[i]) )
              => call.results[i].recoupment <= call.results[i].taxDeprOnDisposals
        /\ ( /\ CategoryResolved
             /\ \A i \in DOMAIN asset.components :
                   DisposedOnOrAfterAcquisition(asset.components[i]) )
           => call.ret.recoupment <= call.ret.taxDeprOnDisposals

\* the events of a component in effect on a date
ApplicableRevals(comp, date) ==
    {k \in DOMAIN comp.revaluations : comp.revaluations[k].date <= date}

RECURSIVE SumOfDifferences(_, _)
SumOfDifferences(comp, ks) ==
    IF ks = {} THEN 0
    ELSE LET k == CHOOSE x \in ks : TRUE
         IN  (comp.revaluations[k].newFairValue - comp.cost)
             + SumOfDifferences(comp, ks \ {k})

\* the event with the greatest date; among equal dates, the last of the list
LatestRevaluation(comp, ks) ==
    CHOOSE k \in ks :
        \A j \in ks :
            \/ comp.revaluations[j].date < comp.revaluations[k].date
            \/ (comp.revaluations[j].date = comp.revaluations[k].date /\ j <= k)

\* C4 as claimed: the revaluation impact of a snapshot is the sum of
\* (newFairValue - cost) over all events on or before the target date.
C4_RevaluationIsSum ==
    (IsIFRSCall /\ OnBooksAt(calledComp, call.targetDate)) =>
        call.ret.revaluations =
            SumOfDifferences(calledComp, ApplicableRevals(calledComp, call.targetDate))

\* C4 as amended: the revaluation impact of a snapshot is newFairValue - cost of
\* the latest event on or before the target date (of several events of that
\* date, the last in the list), and 0 when there is none; earlier events
\* contribute nothing.
C4_RevaluationIsLatest ==
    (IsIFRSCall /\ OnBooksAt(calledComp, call.targetDate)) =>
        LET ks == ApplicableRevals(calledComp, call.targetDate)
        IN  call.ret.revaluations =
              IF ks = {} THEN 0
              ELSE calledComp.revaluations[LatestRevaluation(calledComp, ks)].newFairValue
                   - calledComp.cost

C4_Witness ==
    /\ IsIFRSCall
    /\ OnBooksAt(calledComp, call.targetDate)
    /\ Cardinality(ApplicableRevals(calledComp, call.targetDate)) = 2
    /\ calledComp.revaluations[1].date > calledComp.revaluations[2].date
    /\ call.ret.revaluations = calledComp.revaluations[1].newFairValue - calledComp.cost
    /\ call.ret.revaluations # 0

Retired(comp) == comp.status \in {DISPOSED, SCRAPPED} /\ comp.disposalDate # NoDate

AllZeroIFRS(v) ==
    /\ v.cost = 0 /\ v.accumDepr = 0 /\ v.impairments = 0
    /\ v.revaluations = 0 /\ v.residual = 0

AllZeroSARS(v) ==
    v.cost = 0 /\ v.taxValue = 0 /\ v.accumTaxDepr = 0 /\ v.currentTaxYear = 0

\* C5: Zero at/after disposal.  For a component with status Disposed or Scrapped
\* and a disposal date, the IFRS and the tax snapshot are all zero at every
\* target date >= disposalDate, and the snapshot of disposalDate - 1, when that
\* day is on or after acquisition, reports the component's cost (non-zero for a
\* component of non-zero cost).
C5_ZeroFromDisposal ==
    /\ (IsIFRSCall /\ Retired(calledComp)) =>
          /\ call.targetDate >= calledComp.disposalDate => AllZeroIFRS(call.ret)
          /\ ( /\ call.targetDate = calledComp.disposalDate - 1
               /\ call.targetDate >= calledComp.acquisitionDate )
             => (call.ret.cost = calledComp.cost
                 /\ (calledComp.cost # 0 => call.ret.cost # 0))
    /\ (IsSARSCall /\ Retired(calledComp)) =>
          /\ call.targetDate >= calledComp.disposalDate => AllZeroSARS(call.ret)
          /\ ( /\ call.targetDate = calledComp.disposalDate - 1
               /\ call.targetDate >= calledComp.acquisitionDate )
             => (call.ret.cost = calledComp.cost
                 /\ (calledComp.cost # 0 => call.ret.cost # 0))

C5_Witness ==
    /\ IsIFRSCall
    /\ calledComp.status = SCRAPPED
    /\ calledComp.disposalDate = call.targetDate
    /\ calledComp.acquisitionDate < call.targetDate
    /\ calledComp.cost > 0 /\ calledComp.impairmentLoss > 0
    /\ AllZeroIFRS(call.ret)

AllZeroMovement(r) ==
    /\ r.openingCost = 0 /\ r.additions = 0 /\ r.disposals = 0 /\ r.revaluations = 0
    /\ r.impairments = 0 /\ r.closingCost = 0 /\ r.openingAccumulatedDepr = 0
    /\ r.periodicDepr = 0 /\ r.accumulatedDeprOnDisposals = 0
    /\ r.closingAccumulatedDepr = 0 /\ r.nbv = 0 /\ r.taxValue = 0
    /\ r.taxDeductionForPeriod = 0 /\ r.openingAccumulatedTaxDepr = 0
    /\ r.taxDeprOnDisposals = 0 /\ r.closingAccumulatedTaxDepr = 0
    /\ r.taxYearOfAsset = 0 /\ r.profitOnDisposal = 0 /\ r.recoupment = 0

\* C6: Zero before acquisition.  At every target date strictly before the
\* acquisition date the IFRS and the tax snapshot are all zero (currentTaxYear
\* included), so a component acquired after the period end contributes zero to
\* every field of the period result.
C6_ZeroBeforeAcquisition ==
    /\ (IsIFRSCall /\ call.targetDate < calledComp.acquisitionDate) => AllZeroIFRS(call.ret)
    /\ (IsSARSCall /\ call.targetDate < calledComp.acquisitionDate) => AllZeroSARS(call.ret)
    /\ IsCalculation =>
          \A i \in DOMAIN call.results :
              asset.components[i].acquisitionDate > call.reportEndDate
                  => AllZeroMovement(call.results[i])

\* C7: Depreciation floor.  For every component and target date accumulated
\* depreciation lies between 0 and max(0, cost + revaluationImpact
\* - impairmentLoss - residual), and the net book value reported for a component
\* that is on the books at period end is never below its residual value.
C7_DepreciationFloor ==
    /\ IsIFRSCall =>
          /\ call.ret.accumDepr >= 0
          /\ call.ret.accumDepr <=
                Max(0, calledComp.cost + call.ret.revaluations
                       - calledComp.impairmentLoss - calledComp.residualValue)
    /\ IsCalculation =>
          \A i \in DOMAIN call.results :
              OnBooksAt(asset.components[i], call.reportEndDate)
                  => call.results[i].nbv >= asset.components[i].residualValue

C7_Witness ==
    /\ IsIFRSCall
    /\ OnBooksAt(calledComp, call.targetDate)
    /\ calledComp.residualValue > 0
    /\ call.ret.accumDepr > 0
    /\ call.ret.accumDepr =
          calledComp.cost + call.ret.revaluations
          - calledComp.impairmentLoss - calledComp.residualValue

\* C8: Tax deduction cap.  Under every strategy, for every component with
\* cost >= 0 and every target date, accumulated tax depreciation lies between 0
\* and cost, and taxValue = cost - accumulated tax depreciation >= 0.
C8_TaxDeductionCap ==
    (IsSARSCall /\ calledComp.cost >= 0 /\ categoryOfAsset.defaultTaxRate >= 0) =>
        /\ call.ret.accumTaxDepr >= 0
        /\ call.ret.accumTaxDepr <= calledComp.cost
        /\ call.ret.taxValue = call.ret.cost - call.ret.accumTaxDepr
        /\ call.ret.taxValue >= 0

C8_Witness ==
    /\ IsSARSCall
    /\ categoryOfAsset.taxStrategy = STANDARD_FLAT
    /\ OnBooksAt(calledComp, call.targetDate)
    /\ calledComp.cost > 0
    /\ call.ret.accumTaxDepr = calledComp.cost
    /\ call.ret.taxValue = 0

\* the fiscal year of the days used, read off the calendar: January to June
\* belong to the fiscal year of their calendar year, July to December to the next
FiscalYearByCalendar ==
    [d \in TargetDates |->
        CASE d \in {D_2023_06_29, D_2023_06_30} -> 2023
          [] d \in {D_2023_07_01, D_2023_07_02, D_2024_06_30} -> 2024
          [] d = D_2024_07_01 -> 2025
          [] d = D_2026_07_01 -> 2027
          [] d = D_2043_07_01 -> 2044]

\* C9: Fiscal-year tax-year bucketing.  For a target date on or after
\* acquisition and before disposal, currentTaxYear = max(1, fiscalYear(target)
\* - fiscalYear(acquisition) + 1) with the June 30 year end; a component
\* acquired on June 30 is in tax year 2 on the following July 1.
C9_TaxYearBucketing ==
    (IsSARSCall /\ OnBooksAt(calledComp, call.targetDate)) =>
        /\ call.ret.currentTaxYear =
              Max(1, FiscalYearByCalendar[call.targetDate]
                     - FiscalYearByCalendar[calledComp.acquisitionDate] + 1)
        /\ (calledComp.acquisitionDate = D_2023_06_30 /\ call.targetDate = D_2023_07_01)
              => call.ret.currentTaxYear = 2

C9_Witness ==
    /\ IsSARSCall
    /\ OnBooksAt(calledComp, call.targetDate)
    /\ calledComp.acquisitionDate = D_2023_06_30
    /\ call.targetDate = D_2023_07_01
    /\ call.ret.currentTaxYear = 2

\* the percentage of cost a schedule allows in a tax year, as the statute has it
StatutoryPercent(strategy, taxYear) ==
    CASE taxYear < 1 -> 0
      [] taxYear >= 1 /\ strategy = SARS_12C_40_20 ->
            IF taxYear = 1 THEN 40 ELSE IF taxYear \in 2..4 THEN 20 ELSE 0
      [] taxYear >= 1 /\ strategy = SARS_12B_50_30_20 ->
            IF taxYear = 1 THEN 50 ELSE IF taxYear = 2 THEN 30
            ELSE IF taxYear = 3 THEN 20 ELSE 0
      [] taxYear >= 1 /\ strategy = SARS_FULL_100 -> IF taxYear = 1 THEN 100 ELSE 0
      [] taxYear >= 1 /\ strategy = SARS_13_5 -> IF taxYear \in 1..20 THEN 5 ELSE 0
      [] OTHER -> 0

\* the number of tax years after which a schedule is complete
ScheduleLength(strategy) ==
    CASE strategy = SARS_12C_40_20 -> 4
      [] strategy = SARS_12B_50_30_20 -> 3
      [] strategy = SARS_FULL_100 -> 1
      [] strategy = SARS_13_5 -> 20

RECURSIVE CumulativeDeduction(_, _, _)
CumulativeDeduction(comp, strategy, n) ==
    IF n < 1 THEN 0
    ELSE CumulativeDeduction(comp, strategy, n - 1) + getTaxYearDeduction(comp, strategy, n)

\* C10: Statutory schedules.  The deduction of a tax year is 40/20/20/20 per
\* cent of cost in years 1-4 and 0 from year 5 (40/20/20/20), 50/30/20 in years
\* 1-3 and 0 after (50/30/20), 100 in year 1 and 0 after (full write-off), 5 in
\* each of years 1-20 and 0 after (5%), and 0 for a tax year below 1; the sum
\* over years 1..n never exceeds cost and equals cost once the schedule is
\* complete; cost 100 000 gives 40 000, 20 000, 20 000, 20 000, 0.
C10_StatutorySchedules ==
    IsDeduction =>
        LET strategy == categoryOfAsset.taxStrategy
            cost == calledComp.cost
            y == call.taxYear
        IN  /\ cost % 100 = 0
            /\ call.ret = StatutoryPercent(strategy, y) * (cost \div 100)
            /\ y < 1 => call.ret = 0
            /\ strategy # STANDARD_FLAT =>
                  /\ CumulativeDeduction(calledComp, strategy, y) <= cost
                  /\ y >= ScheduleLength(strategy)
                        => CumulativeDeduction(calledComp, strategy, y) = cost
            /\ (cost = 100000 /\ strategy = SARS_12C_40_20) =>
                  call.ret = CASE y = 1 -> 40000
                               [] y \in 2..4 -> 20000
                               [] OTHER -> 0

C10_Witness ==
    /\ IsDeduction
    /\ categoryOfAsset.taxStrategy = SARS_12C_40_20
    /\ calledComp.cost = 100000
    /\ call.taxYear = 5
    /\ call.ret = 0
    /\ CumulativeDeduction(calledComp, SARS_12C_40_20, 5) = 100000

NumericFields ==
    {"openingCost", "additions", "disposals", "revaluations", "impairments",
     "closingCost", "openingAccumulatedDepr", "periodicDepr",
     "accumulatedDeprOnDisposals", "closingAccumulatedDepr", "nbv", "taxValue",
     "taxDeductionForPeriod", "openingAccumulatedTaxDepr", "taxDeprOnDisposals",
     "closingAccumulatedTaxDepr", "taxYearOfAsset"}

\* C11: Category not found.  When asset.categoryId matches no category of the
\* list, calculateDepreciation returns, whatever the components contain, a
\* record carrying the asset's id in which every numeric field is zero.
C11_CategoryNotFound ==
    (IsCalculation /\ \A k \in DOMAIN categories : categories[k].id # asset.categoryId) =>
        /\ call.ret.assetId = asset.id
        /\ DOMAIN call.ret = NumericFields \cup {"assetId"}
        /\ \A f \in NumericFields : call.ret[f] = 0

C11_Witness ==
    /\ IsCalculation
    /\ \A k \in DOMAIN categories : categories[k].id # asset.categoryId
    /\ Len(asset.components) = 2
    /\ \E i \in DOMAIN asset.components :
          /\ asset.components[i].cost > 0
          /\ DisposedWithin(asset.components[i], call.reportStartDate, call.reportEndDate)
    /\ call.ret.assetId = "a-multi"
    /\ call.ret.closingCost = 0

\* the revaluation impact in effect on a date: that of the latest event, as C4 has it
RevalImpactOn(comp, date) ==
    IF ApplicableRevals(comp, date) = {} THEN 0
    ELSE comp.revaluations[LatestRevaluation(comp, ApplicableRevals(comp, date))].newFairValue
         - comp.cost

\* the five disposal figures of r are those of a disposal on the day after dayBefore
DisposalFiguresFrom(comp, category, r, dayBefore) ==
    /\ r.disposals = getIFRSValuesAt(comp, dayBefore).cost
                     + getIFRSValuesAt(comp, dayBefore).revaluations
                     - getIFRSValuesAt(comp, dayBefore).impairments
    /\ comp.acquisitionDate <= dayBefore =>
          r.disposals = comp.cost + RevalImpactOn(comp, dayBefore) - comp.impairmentLoss
    /\ r.accumulatedDeprOnDisposals = getIFRSValuesAt(comp, dayBefore).accumDepr
    /\ r.taxDeprOnDisposals = getSARSValuesAt(comp, category, dayBefore).accumTaxDepr
    /\ r.profitOnDisposal =
          comp.disposalProceeds - (r.disposals - r.accumulatedDeprOnDisposals)

NoDisposalFigures(r) ==
    /\ r.disposals = 0 /\ r.accumulatedDeprOnDisposals = 0 /\ r.taxDeprOnDisposals = 0
    /\ r.profitOnDisposal = 0 /\ r.recoupment = 0

\* C12: Disposal figures.  For a component whose disposal date d lies in
\* [reportStart, reportEnd], disposals = cost + revaluation impact - impairments
\* of the snapshot of d - 1, accumulatedDeprOnDisposals and taxDeprOnDisposals
\* are the accumulated IFRS and tax figures of d - 1, and profitOnDisposal =
\* disposalProceeds - (disposals - accumulatedDeprOnDisposals); for a component
\* not disposed in the period all five disposal figures are 0.
C12_DisposalFigures ==
    IsCalculation =>
        \A i \in DOMAIN call.results :
            IF DisposedWithin(asset.components[i], call.reportStartDate, call.reportEndDate)
            THEN DisposalFiguresFrom(asset.components[i], categoryOfAsset, call.results[i],
                                     asset.components[i].disposalDate - 1)
            ELSE NoDisposalFigures(call.results[i])

C12_Witness ==
    /\ IsCalculation
    /\ \E i \in DOMAIN call.results :
          /\ DisposedWithin(asset.components[i], call.reportStartDate, call.reportEndDate)
          /\ asset.components[i].acquisitionDate < asset.components[i].disposalDate
          /\ asset.components[i].revaluations # <<>>
          /\ asset.components[i].impairmentLoss > 0
          /\ call.results[i].disposals > 0
          /\ call.results[i].accumulatedDeprOnDisposals > 0
          /\ call.results[i].profitOnDisposal < 0

\* the components of the asset disposed inside the period of the calculation
DisposedInPeriod ==
    {i \in DOMAIN asset.components :
        DisposedWithin(asset.components[i], call.reportStartDate, call.reportEndDate)}

RECURSIVE SumOverComponents(_, _, _)
SumOverComponents(results, field, is) ==
    IF is = {} THEN 0
    ELSE LET i == CHOOSE x \in is : TRUE
         IN  results[i][field] + SumOverComponents(results, field, is \ {i})

\* C13: Disposal reporting at asset level.  For an asset in which at least one
\* component has a disposal date within the period the asset-level disposal
\* flag is true and profitOnDisposal and recoupment are the sums of the figures
\* of exactly the components disposed in the period; for an asset with no
\* component disposed in the period the flag is false and both are zero.
C13_DisposalReporting ==
    (IsCalculation /\ CategoryResolved) =>
        IF DisposedInPeriod # {}
        THEN /\ call.ret.hasAnyDisposal
             /\ call.ret.profitOnDisposal =
                   SumOverComponents(call.results, "profitOnDisposal", DisposedInPeriod)
             /\ call.ret.recoupment =
                   SumOverComponents(call.results, "recoupment", DisposedInPeriod)
        ELSE /\ ~call.ret.hasAnyDisposal
             /\ call.ret.profitOnDisposal = 0
             /\ call.ret.recoupment = 0

\* C14: Additions rule.  For every component and period additions = cost when
\* reportStart <= acquisitionDate <= reportEnd (both bounds inclusive) and 0
\* otherwise, whether or not the component is later disposed; a component is
\* never counted both in openingCost and in additions of the same period.
C14_AdditionsRule ==
    IsCalculation =>
        \A i \in DOMAIN call.results :
            /\ call.results[i].additions =
                  IF /\ call.reportStartDate <= asset.components[i].acquisitionDate
                     /\ asset.components[i].acquisitionDate <= call.reportEndDate
                  THEN asset.components[i].cost
                  ELSE 0
            /\ ~(call.results[i].openingCost # 0 /\ call.results[i].additions # 0)

C14_Witness ==
    /\ IsCalculation
    /\ \E i \in DOMAIN call.results :
          /\ asset.components[i].acquisitionDate = call.reportEndDate
          /\ asset.components[i].status = DISPOSED
          /\ asset.components[i].disposalDate > call.reportEndDate
          /\ call.results[i].additions = asset.components[i].cost
          /\ call.results[i].additions > 0
          /\ call.results[i].openingCost = 0
    /\ \E i \in DOMAIN call.results :
          /\ asset.components[i].acquisitionDate < call.reportStartDate
          /\ call.results[i].additions = 0
          /\ call.results[i].openingCost > 0

AdditiveFields == NumericFields \ {"taxYearOfAsset"}

MaxTaxYearOf(results) ==
    IF DOMAIN results = {} THEN 0
    ELSE CHOOSE y \in {results[i].taxYearOfAsset : i \in DOMAIN results} :
            \A i \in DOMAIN results : results[i].taxYearOfAsset <= y

\* the orders in which n components can be listed
Orders(n) == {p \in [1..n -> 1..n] : \A i, j \in 1..n : p[i] = p[j] => i = j}

Reordered(a, p) == [a EXCEPT !.components = [i \in DOMAIN p |-> a.components[p[i]]]]

\* C15: Aggregation across components.  For an asset with a resolved category
\* every additive field of the asset-level result equals the sum of that field
\* over its components, taxYearOfAsset equals the maximum component tax year,
\* the result does not depend on the order of the components, and an asset
\* with no components yields all zeros.
C15_Aggregation ==
    (IsCalculation /\ CategoryResolved) =>
        /\ \A f \in AdditiveFields :
              call.ret[f] = SumOverComponents(call.results, f, DOMAIN call.results)
        /\ call.ret.taxYearOfAsset = MaxTaxYearOf(call.results)
        /\ \A p \in Orders(Len(asset.components)) :
              calculateDepreciation(Reordered(asset, p), call.reportStartDate,
                                    call.reportEndDate, categories) = call.ret
        /\ asset.components = <<>> =>
              /\ \A f \in NumericFields : call.ret[f] = 0
              /\ call.ret.profitOnDisposal = 0 /\ call.ret.recoupment = 0

C15_Witness ==
    /\ IsCalculation /\ CategoryResolved
    /\ Len(asset.components) = 2
    /\ asset.components[1] # asset.components[2]
    /\ call.results[1].closingCost > 0 /\ call.results[2].closingCost > 0
    /\ call.results[1].taxYearOfAsset > call.results[2].taxYearOfAsset
    /\ call.ret.taxYearOfAsset = call.results[1].taxYearOfAsset
    /\ call.ret.closingCost = call.results[1].closingCost + call.results[2].closingCost

\* the monetary fields that are neither signed nor movement deltas
UnsignedFields ==
    {"openingCost", "closingCost", "additions", "disposals",
     "openingAccumulatedDepr", "periodicDepr", "closingAccumulatedDepr",
     "accumulatedDeprOnDisposals", "nbv", "taxValue", "taxDeductionForPeriod",
     "openingAccumulatedTaxDepr", "closingAccumulatedTaxDepr", "taxDeprOnDisposals",
     "recoupment"}

NonNegativeInputs ==
    \A i \in DOMAIN asset.components :
        /\ asset.components[i].cost >= 0
        /\ asset.components[i].residualValue >= 0
        /\ asset.components[i].impairmentLoss >= 0
        /\ asset.components[i].disposalProceeds >= 0
        /\ \A k \in DOMAIN asset.components[i].revaluations :
              asset.components[i].revaluations[k].newFairValue >= 0

\* C16: Non-negative outputs.  For every asset with cost, residual,
\* impairmentLoss, fair values and proceeds all >= 0, and every period, every
\* monetary field of the result other than profitOnDisposal and the movement
\* deltas (revaluations, impairments) is >= 0.
C16_NonNegativeOutputs ==
    (IsCalculation /\ CategoryResolved /\ NonNegativeInputs) =>
        /\ \A f \in UnsignedFields : call.ret[f] >= 0
        /\ \A i \in DOMAIN call.results : \A f \in UnsignedFields : call.results[i][f] >= 0

\* C17 as claimed: for every asset and period the reported nbv equals
\* closingCost - closingAccumulatedDepr, also for components whose impairment
\* brings the gross carrying amount below the residual value.
C17_NbvIsClosingDifference ==
    (IsCalculation /\ CategoryResolved) =>
        /\ \A i \in DOMAIN call.results :
              call.results[i].nbv =
                  call.results[i].closingCost - call.results[i].closingAccumulatedDepr
        /\ call.ret.nbv = call.ret.closingCost - call.ret.closingAccumulatedDepr

\* the residual value of a component on a date: its residualValue while it is on the books
ResidualOn(comp, date) == IF OnBooksAt(comp, date) THEN comp.residualValue ELSE 0

\* C17 as amended: the nbv of a component is the greater of its residual value
\* at period end (0 when it is not on the books then) and closingCost
\* - closingAccumulatedDepr; it equals closingCost - closingAccumulatedDepr
\* whenever closingCost is not below that residual value; the nbv of the asset
\* is the sum of the nbv of its components.
C17_NbvFlooredAtResidual ==
    (IsCalculation /\ CategoryResolved) =>
        /\ \A i \in DOMAIN call.results :
              /\ call.results[i].nbv =
                    Max(ResidualOn(asset.components[i], call.reportEndDate),
                        call.results[i].closingCost - call.results[i].closingAccumulatedDepr)
              /\ call.results[i].closingCost
                    >= ResidualOn(asset.components[i], call.reportEndDate)
                 => call.results[i].nbv =
                       call.results[i].closingCost - call.results[i].closingAccumulatedDepr
        /\ call.ret.nbv = SumOverComponents(call.results, "nbv", DOMAIN call.results)

C17_Witness ==
    /\ IsCalculation /\ CategoryResolved
    /\ \E i \in DOMAIN call.results :
          /\ OnBooksAt(asset.components[i], call.reportEndDate)
          /\ asset.components[i].impairmentLoss > 0
          /\ call.results[i].closingCost < asset.components[i].residualValue
          /\ call.results[i].nbv = asset.components[i].residualValue
          /\ call.results[i].nbv >
                call.results[i].closingCost - call.results[i].closingAccumulatedDepr

RECURSIVE SumOfYearDeductions(_, _, _, _)
SumOfYearDeductions(comp, strategy, from, to) ==
    IF from > to THEN 0
    ELSE getTaxYearDeduction(comp, strategy, from)
         + SumOfYearDeductions(comp, strategy, from + 1, to)

\* the tax year a component is in on a date, 0 while it is not on the books
TaxYearOn(comp, category, date) == getSARSValuesAt(comp, category, date).currentTaxYear

\* the last day of the period on which the component can accrue: the period end,
\* or the day before a disposal inside the period
LastAccrualDay(comp, start, end) ==
    IF DisposedWithin(comp, start, end) THEN comp.disposalDate - 1 ELSE end

TaxRollsForward(r) ==
    /\ r.taxDeductionForPeriod =
          Max(0, r.closingAccumulatedTaxDepr - r.openingAccumulatedTaxDepr
                 + r.taxDeprOnDisposals)
    /\ r.closingAccumulatedTaxDepr =
          r.openingAccumulatedTaxDepr + r.taxDeductionForPeriod - r.taxDeprOnDisposals

\* C18: Tax roll-forward.  taxDeductionForPeriod = max(0, closing - opening
\* accumulated tax depreciation + taxDeprOnDisposals), and for every component
\* with cost >= 0 and rate >= 0 the clamp never bites, so closing = opening
\* + taxDeductionForPeriod - taxDeprOnDisposals; under a statutory schedule the
\* period deduction is the capped sum of the year deductions of the tax years
\* entered after the opening date up to the closing (or pre-disposal) date.
C18_TaxRollForward ==
    (IsCalculation /\ CategoryResolved) =>
        \A i \in DOMAIN call.results :
            (asset.components[i].cost >= 0 /\ categoryOfAsset.defaultTaxRate >= 0) =>
                /\ TaxRollsForward(call.results[i])
                /\ categoryOfAsset.taxStrategy # STANDARD_FLAT =>
                      call.results[i].taxDeductionForPeriod =
                          Min(asset.components[i].cost,
                              SumOfYearDeductions(asset.components[i],
                                  categoryOfAsset.taxStrategy,
                                  TaxYearOn(asset.components[i], categoryOfAsset,
                                            call.reportStartDate - 1) + 1,
                                  TaxYearOn(asset.components[i], categoryOfAsset,
                                            LastAccrualDay(asset.components[i],
                                                call.reportStartDate, call.reportEndDate))))

C18_Witness ==
    /\ IsCalculation /\ CategoryResolved
    /\ categoryOfAsset.taxStrategy = SARS_12C_40_20
    /\ \E i \in DOMAIN call.results :
          /\ DisposedWithin(asset.components[i], call.reportStartDate, call.reportEndDate)
          /\ call.results[i].openingAccumulatedTaxDepr > 0
          /\ call.results[i].taxDeprOnDisposals > call.results[i].openingAccumulatedTaxDepr
          /\ call.results[i].closingAccumulatedTaxDepr = 0
          /\ call.results[i].taxDeductionForPeriod =
                getTaxYearDeduction(asset.components[i], SARS_12C_40_20, 2)

\* the scenario component, kept
IsScenarioKept ==
    /\ Len(asset.components) = 1
    /\ asset.components[1].acquisitionDate = D_2023_01_15
    /\ asset.components[1].cost = Rand(55000)
    /\ asset.components[1].residualValue = 0
    /\ asset.components[1].usefulLifeYears = 10
    /\ asset.components[1].status = ACTIVE
    /\ asset.components[1].disposalDate = NoDate

IsFullYear2023 ==
    IsCalculation /\ call.reportStartDate = D_2023_01_01 /\ call.reportEndDate = D_2023_12_31

\* 55000/10 x days/365.25
ScenarioCharge(days) == days * (((Rand(55000) \div 10) * 4) \div DAYS_PER_YEAR_X4)

\* C19 as claimed: the scenario component (cost 55 000, residual 0, life 10,
\* acquired 2023-01-15, not disposed) reported over 2023-01-01..2023-12-31 gives
\* additions 55 000, opening cost 0, closing cost 55 000 and a periodic
\* depreciation of 55000/10 x 350/365.25, 350 being the days held.
C19_ScenarioCharge350 ==
    (IsScenarioKept /\ IsFullYear2023) =>
        /\ call.ret.additions = Rand(55000)
        /\ call.ret.openingCost = 0
        /\ call.ret.closingCost = Rand(55000)
        /\ call.ret.periodicDepr = ScenarioCharge(350)

\* C19 as amended: the same scenario gives additions 55 000, opening cost 0,
\* closing cost 55 000 and a periodic depreciation of 55000/10 x 351/365.25:
\* the days held from 01-15 to 12-31, both included, are 351.
C19_ScenarioCharge351 ==
    (IsScenarioKept /\ IsFullYear2023) =>
        /\ call.ret.additions = Rand(55000)
        /\ call.ret.openingCost = 0
        /\ call.ret.closingCost = Rand(55000)
        /\ call.ret.periodicDepr = ScenarioCharge(351)
        /\ call.results[1].periodicDepr = ScenarioCharge(351)
        /\ Cardinality(D_2023_01_15 .. D_2023_12_31) = 351

C19_Witness ==
    /\ IsScenarioKept /\ IsFullYear2023
    /\ call.ret.additions = Rand(55000)
    /\ call.ret.periodicDepr = ScenarioCharge(351)
    /\ call.ret.periodicDepr > ScenarioCharge(350)

\* the scenario component, sold on 2023-07-01 for 40 000
IsScenarioSold ==
    /\ Len(asset.components) = 1
    /\ asset.components[1].acquisitionDate = D_2023_01_15
    /\ asset.components[1].cost = Rand(55000)
    /\ asset.components[1].residualValue = 0
    /\ asset.components[1].usefulLifeYears = 10
    /\ asset.components[1].status = DISPOSED
    /\ asset.components[1].disposalDate = D_2023_07_01
    /\ asset.components[1].disposalProceeds = Rand(40000)

\* C20: Scenario, disposal mid-period.  The scenario component disposed on
\* 2023-07-01 with proceeds 40 000 and reported over the full year 2023 gives
\* disposals 55 000, closing cost 0, closing accumulated depreciation 0, a
\* periodic depreciation equal to the depreciation accrued from 2023-01-15 to
\* 2023-06-30 inclusive (none on or after the disposal day), and
\* profitOnDisposal = 40 000 - (55 000 - that accrued depreciation).
C20_ScenarioDisposal ==
    /\ (IsScenarioSold /\ IsFullYear2023) =>
          /\ call.ret.disposals = Rand(55000)
          /\ call.ret.closingCost = 0
          /\ call.ret.closingAccumulatedDepr = 0
          /\ call.ret.periodicDepr =
                ScenarioCharge(Cardinality(D_2023_01_15 .. D_2023_06_30))
          /\ call.ret.profitOnDisposal =
                Rand(40000) - (Rand(55000)
                               - ScenarioCharge(Cardinality(D_2023_01_15 .. D_2023_06_30)))
          /\ call.ret.hasAnyDisposal
    /\ (IsScenarioSold /\ IsIFRSCall /\ call.targetDate >= D_2023_07_01) =>
          call.ret.accumDepr = 0

C20_Witness ==
    /\ IsScenarioSold /\ IsFullYear2023
    /\ call.ret.disposals = Rand(55000)
    /\ call.ret.periodicDepr = ScenarioCharge(167)
    /\ call.ret.profitOnDisposal < 0
    /\ call.ret.accumulatedDeprOnDisposals = call.ret.periodicDepr

\* the record with every optional field it lacks written out as 0 / empty
FilledIn(comp) ==
    [f \in DOMAIN comp \cup OptionalFields |->
        IF f \in DOMAIN comp THEN comp[f]
        ELSE IF f = "revaluations" THEN <<>> ELSE 0]

FilledInAsset(a) == [a EXCEPT !.components = [i \in DOMAIN a.components |-> FilledIn(a.components[i])]]

\* C21: Degenerate inputs never fault.  For a component with usefulLifeYears <= 0
\* the accumulated depreciation at every date and the periodic depreciation of
\* every period are 0, and a component that lacks residualValue,
\* impairmentLoss, revaluations or disposalProceeds is evaluated as if those
\* were 0 / empty, calculateDepreciation returning a result.
C21_DegenerateInputs ==
    /\ (IsIFRSCall /\ calledComp.usefulLifeYears <= 0) => call.ret.accumDepr = 0
    /\ IsIFRSCall => call.ret = getIFRSValuesAt(FilledIn(calledComp), call.targetDate)
    /\ IsCalculation =>
          /\ \A i \in DOMAIN call.results :
                asset.components[i].usefulLifeYears <= 0 =>
                    /\ call.results[i].periodicDepr = 0
                    /\ call.results[i].openingAccumulatedDepr = 0
                    /\ call.results[i].closingAccumulatedDepr = 0
                    /\ call.results[i].accumulatedDeprOnDisposals = 0
          /\ NumericFields \subseteq DOMAIN call.ret
          /\ \A f \in NumericFields : call.ret[f] \in Int
          /\ call.ret = calculateDepreciation(FilledInAsset(asset), call.reportStartDate,
                                              call.reportEndDate, categories)

C21_Witness ==
    /\ IsCalculation
    /\ DOMAIN asset.components[1] \cap OptionalFields = {}
    /\ asset.components[1].usefulLifeYears < 0
    /\ DisposedWithin(asset.components[1], call.reportStartDate, call.reportEndDate)
    /\ call.ret.disposals = asset.components[1].cost
    /\ call.ret.periodicDepr = 0
    /\ call.ret.profitOnDisposal = 0 - asset.components[1].cost

\* the days from acquisition to a date, both included
DaysHeldOn(comp, date) == Cardinality(comp.acquisitionDate .. date)

\* cost x rate/100 / 365.25 x days
FlatAccrual(cost, rate, days) == days * ((((cost \div 100) * rate) * 4) \div DAYS_PER_YEAR_X4)

IsFlatCallOnBooks ==
    /\ IsSARSCall
    /\ categoryOfAsset.taxStrategy = STANDARD_FLAT
    /\ OnBooksAt(calledComp, call.targetDate)

\* C22: Flat-rate tax accrual.  Under the flat strategy, for a target date t
\* with acquisition <= t < disposal, accumulated tax depreciation = min(cost,
\* cost x defaultTaxRate/100 / 365.25 x daysHeld) with daysHeld = (t
\* - acquisitionDate) + 1; it is non-decreasing in t and reaches cost exactly
\* when daysHeld >= 365.25 x 100 / rate.
C22_FlatRateAccrual ==
    IsFlatCallOnBooks =>
        /\ call.ret.accumTaxDepr =
              Min(calledComp.cost,
                  FlatAccrual(calledComp.cost, categoryOfAsset.defaultTaxRate,
                              DaysHeldOn(calledComp, call.targetDate)))
        /\ \A t \in TargetDates :
              (t >= call.targetDate /\ OnBooksAt(calledComp, t)) =>
                  getSARSValuesAt(calledComp, categoryOfAsset, t).accumTaxDepr
                      >= call.ret.accumTaxDepr
        /\ calledComp.cost > 0 =>
              (call.ret.accumTaxDepr = calledComp.cost
                  <=> DaysHeldOn(calledComp, call.targetDate)
                          * categoryOfAsset.defaultTaxRate * 4
                      >= DAYS_PER_YEAR_X4 * 100)

C22_Witness ==
    /\ IsFlatCallOnBooks
    /\ categoryOfAsset.defaultTaxRate = 50
    /\ calledComp.cost > 0
    /\ DaysHeldOn(calledComp, call.targetDate) = 2
    /\ call.ret.accumTaxDepr = FlatAccrual(calledComp.cost, 50, 2)
    /\ call.ret.accumTaxDepr < calledComp.cost

C24_DisposalTerminal ==
    [][\A i \in DOMAIN asset.components :
          asset.components[i].status \in {DISPOSED, SCRAPPED}
              => asset'.components[i].status # ACTIVE]_vars

\* the periods that begin on the day after the reported period ends
FollowingPeriods == {p \in Periods : p[1] = call.reportEndDate + 1}

\* C25: Continuity between adjacent periods.  For two periods [s1, e1] and
\* [s2, e2] with s2 the day after e1, on unchanged data, openingCost,
\* openingAccumulatedDepr and openingAccumulatedTaxDepr of the second equal
\* closingCost, closingAccumulatedDepr and closingAccumulatedTaxDepr of the
\* first.
C25_Continuity ==
    IsCalculation =>
        \A p \in FollowingPeriods :
            /\ calculateDepreciation(asset, p[1], p[2], categories).openingCost
                  = call.ret.closingCost
            /\ calculateDepreciation(asset, p[1], p[2], categories).openingAccumulatedDepr
                  = call.ret.closingAccumulatedDepr
            /\ calculateDepreciation(asset, p[1], p[2], categories).openingAccumulatedTaxDepr
                  = call.ret.closingAccumulatedTaxDepr

C25_Witness ==
    /\ IsCalculation /\ CategoryResolved
    /\ FollowingPeriods # {}
    /\ call.ret.closingCost > call.ret.openingCost
    /\ call.ret.closingAccumulatedDepr > call.ret.openingAccumulatedDepr
    /\ call.ret.closingAccumulatedTaxDepr > call.ret.openingAccumulatedTaxDepr
    /\ call.ret.openingAccumulatedDepr > 0

\* the fields the engine accumulates over a period
FlowFields ==
    {"additions", "disposals", "periodicDepr", "taxDeductionForPeriod",
     "accumulatedDeprOnDisposals", "profitOnDisposal"}

\* the days m on which the reported period [s, e] can be split in two periods
\* of the model, s <= m < e
SplitDays ==
    {m \in TargetDates :
        /\ call.reportStartDate <= m /\ m < call.reportEndDate
        /\ <<call.reportStartDate, m>> \in Periods
        /\ <<m + 1, call.reportEndDate>> \in Periods}

\* C26: Additivity over split periods.  For every component without
\* revaluation events and dates s <= m < e, each of additions, disposals,
\* periodicDepr, taxDeductionForPeriod, accumulatedDeprOnDisposals and
\* profitOnDisposal for [s, e] equals the sum of its values for [s, m] and
\* [m + 1, e], whether or not the component is acquired or disposed in [s, e].
C26_Additivity ==
    (IsCalculation /\ CategoryResolved) =>
        \A i \in DOMAIN asset.components, m \in SplitDays, f \in FlowFields :
            asset.components[i].revaluations = <<>> =>
                call.results[i][f] =
                    calculateComponentDepreciation(asset.components[i],
                        call.reportStartDate, m, categoryOfAsset)[f]
                    + calculateComponentDepreciation(asset.components[i],
                        m + 1, call.reportEndDate, categoryOfAsset)[f]

C26_Witness ==
    /\ IsCalculation /\ CategoryResolved
    /\ \E i \in DOMAIN asset.components, m \in SplitDays :
          /\ asset.components[i].revaluations = <<>>
          /\ asset.components[i].acquisitionDate = m
          /\ DisposedWithin(asset.components[i], m + 1, call.reportEndDate)
          /\ call.results[i].additions > 0
          /\ call.results[i].disposals > 0
          /\ call.results[i].profitOnDisposal # 0
          /\ call.results[i].accumulatedDeprOnDisposals > 0
          /\ call.results[i].taxDeductionForPeriod > 0
          /\ calculateComponentDepreciation(asset.components[i], call.reportStartDate,
                                            m, categoryOfAsset).periodicDepr > 0
          /\ calculateComponentDepreciation(asset.components[i], m + 1,
                                            call.reportEndDate, categoryOfAsset).periodicDepr > 0

\* the component with no trace of a disposal
NeverDisposed(comp) ==
    [comp EXCEPT !.status = ACTIVE, !.disposalDate = NoDate, !.disposalProceeds = 0]

\* Active or Impaired, or Disposed or Scrapped without a disposal date
NotRecognisedAsDisposed(comp) ==
    comp.status \in {ACTIVE, IMPAIRED} \/ comp.disposalDate = NoDate

\* C27: Disposal recognised only through status.  A component with status
\* Active or Impaired is valued as never disposed even if it carries a
\* disposal date and proceeds: its cost stays on the books after that date,
\* disposals, profit and recoupment are 0; a component with status Disposed or
\* Scrapped but no disposal date is likewise valued as never disposed.
C27_StatusOnlyDisposal ==
    (IsCalculation /\ CategoryResolved) =>
        \A i \in DOMAIN asset.components :
            NotRecognisedAsDisposed(asset.components[i]) =>
                /\ call.results[i] =
                      calculateComponentDepreciation(NeverDisposed(asset.components[i]),
                          call.reportStartDate, call.reportEndDate, categoryOfAsset)
                /\ call.results[i].disposals = 0
                /\ call.results[i].profitOnDisposal = 0
                /\ call.results[i].recoupment = 0
                /\ ~call.results[i].hasDisposal
                /\ asset.components[i].acquisitionDate <= call.reportEndDate =>
                      getIFRSValuesAt(asset.components[i], call.reportEndDate).cost
                          = asset.components[i].cost

C27_Witness ==
    /\ IsCalculation /\ CategoryResolved
    /\ asset.components[1].status \in {ACTIVE, IMPAIRED}
    /\ asset.components[1].disposalDate # NoDate
    /\ asset.components[1].disposalProceeds > 0
    /\ asset.components[1].disposalDate >= call.reportStartDate
    /\ asset.components[1].disposalDate < call.reportEndDate
    /\ call.results[1].closingCost > 0
    /\ call.results[1].periodicDepr > 0

\* C28: No push before pull.  In every sequence of configuration edits, pulls
\* (successful or failed), data edits and manual or automatic pushes, the
\* local data are upserted to a remote endpoint only after a pull from that
\* same endpoint configuration has completed successfully.
C28_NoPushBeforePull ==
    (call.op \in {"pushToPostgres", "autoPush"} /\ call.upsertedTo # NoClient)
        => call.upsertedTo \in call.pulled

IsJournal == call.op \in {"journals", "journalsPerAsset"}

RECURSIVE SumOfEntries(_, _, _)
SumOfEntries(entries, side, n) ==
    IF n = 0 THEN 0 ELSE SumOfEntries(entries, side, n - 1) + entries[n][side]

\* the assets of the journal that pass the branch filter
JournalledAssets ==
    {call.assets[k] : k \in {j \in DOMAIN call.assets :
        call.selectedBranch = "all" \/ call.assets[j].branchId = call.selectedBranch}}

\* C29: Balanced journals.  For every set of assets, categories, selected
\* month, branch filter and journal-type filter the entries come in debit /
\* credit pairs of equal amount, so total debits equal total credits, and no
\* entry is produced for an asset whose category cannot be resolved.
C29_BalancedJournals ==
    IsJournal =>
        /\ Len(call.ret) % 2 = 0
        /\ \A k \in DOMAIN call.ret :
              k % 2 = 1 =>
                  /\ call.ret[k].debit > 0 /\ call.ret[k].credit = 0
                  /\ call.ret[k + 1].debit = 0
                  /\ call.ret[k + 1].credit = call.ret[k].debit
                  /\ call.ret[k + 1].branchId = call.ret[k].branchId
        /\ SumOfEntries(call.ret, "debit", Len(call.ret))
              = SumOfEntries(call.ret, "credit", Len(call.ret))
        /\ \A k \in DOMAIN call.ret :
              \E a \in JournalledAssets :
                  /\ findCategory(categories, a.categoryId) # <<>>
                  /\ a.branchId = call.ret[k].branchId
                  /\ call.ret[k].accountCode \in
                        {<<"glCodeDeprExpense", a.categoryId>>,
                         <<"glCodeAccumDepr", a.categoryId>>,
                         <<"glCodeCost", a.categoryId>>, BANK_ACCOUNT}
        /\ (\A a \in JournalledAssets : findCategory(categories, a.categoryId) = <<>>)
              => call.ret = <<>>

C29_Witness ==
    /\ IsJournal
    /\ call.op = "journals"
    /\ call.selectedType = "Addition"
    /\ Len(call.assets) = 2
    /\ movementKey(call.assets[1]) = movementKey(call.assets[2])
    /\ Len(call.ret) = 2
    /\ \E a \in JournalledAssets : findCategory(categories, a.categoryId) = <<>>
    /\ SumOfEntries(call.ret, "debit", Len(call.ret)) > 0

\* the unit and everything below it in the list the handler started from
RECURSIVE UnitAndBelow(_, _, _)
UnitAndBelow(locations, ids, n) ==
    IF n = 0 THEN ids
    ELSE UnitAndBelow(locations,
                      ids \cup {locations[k].id : k \in {j \in DOMAIN locations :
                                    parentIdOf(locations[j]) \in ids}},
                      n - 1)

RemovedIds == idsOf(call.before) \ idsOf(call.locations)

AssetRefers(ids) ==
    asset.branchId \in ids \/ asset.locationId \in ids \/ asset.subLocationId \in ids

\* C30: Guarded location deletion.  deleteUnit(id) leaves the location list
\* unchanged whenever some asset's branchId, locationId or subLocationId
\* refers to the unit or to any of its child or grandchild units; when it
\* does delete it removes the unit together with all its children and
\* grandchildren, so that afterwards no remaining location has a parentId
\* naming a removed unit and no asset refers to a removed unit.
C30_GuardedDeletion ==
    call.op = "deleteUnit" =>
        /\ AssetRefers(UnitAndBelow(call.before, {call.id}, 2))
              => call.locations = call.before
        /\ ~call.confirmed => call.locations = call.before
        /\ call.locations # call.before =>
              /\ RemovedIds = UnitAndBelow(call.before, {call.id}, Len(call.before))
              /\ call.locations =
                    SelectSeq(call.before, LAMBDA l : l.id \notin RemovedIds)
              /\ \A k \in DOMAIN call.locations :
                    parentIdOf(call.locations[k]) \notin RemovedIds
              /\ ~AssetRefers(RemovedIds)

C30_Witness ==
    /\ call.op = "deleteUnit"
    /\ call.id = "br-hq"
    /\ Len(call.before) = 3
    /\ call.locations = <<>>
    /\ \E k \in DOMAIN call.before : call.before[k].type = "Sublocation"

====
